---- MODULE Spec2Model ----
(***************************************************************************)
(* Message-archive synchronisation of Gajim: the MAM module                *)
(* (gajim/common/modules/mam.py) over the Logger (gajim/common/logger.py). *)
(* One account; its personal archive and the archives of its rooms.        *)
(* Time is counted in hours.                                               *)
(***************************************************************************)
EXTENDS Integers, Sequences, FiniteSets, TLC

\* ---------------------------------------------------------------- bounds
MaxQueryId == 3
MaxTicks == 1
MaxCrashes == 1
MaxLogs == 2
MaxPageLogs == 4
MaxLedgerLogs == 3

\* ------------------------------------------------------------- constants
\* Python None for string-valued fields, NULL for integer-valued fields
None == "None"
Null == -1
NoId == 0

Day == 24
Now0 == 240
TickHours == 36
BootstrapDaysOwn == 7
BootstrapDaysMuc == 1
NO_THRESHOLD == 0

NORMAL_TYPE == 0
ROOM_TYPE == 1
NoType == -1

GCSTATUS == 1
GC_MSG == 2
CHAT_MSG_RECV == 4
CHAT_MSG_SENT == 6
NoKind == -1

NS_MAM_1 == "urn:xmpp:mam:1"
NS_MAM_2 == "urn:xmpp:mam:2"

OwnJid == "own@server"
Rooms == {"room1@muc", "room2@muc"}
Contacts == {"alice@server"}
\* the full JID of an occupant of each room
Occupant == [r \in Rooms |-> IF r = "room1@muc" THEN "room1@muc/nick"
                              ELSE "room2@muc/nick"]
StanzaIds == {"a", "b"}
OriginIds == {None, "a"}
Bodies == {"", "hi"}
Timestamps == {100}
Archives == {OwnJid} \cup Rooms
Cursors == {"c1", "c2"}
ConfigThresholds == {NO_THRESHOLD, 1}
UtcOffsets == {0, 2}

VARIABLES
    logger,             \* Logger: the open database connection and the caches
    disk,               \* the committed content of the log database
    mam_query_ids,      \* MAM._mam_query_ids
    catch_up_finished,  \* MAM._catch_up_finished (a list)
    next_id,            \* the connection's getAnID counter
    pending,            \* IQ queries sent, SendAndCallForResponse not yet called back
    config,             \* app.config: legacy last_mam_id, room sync threshold
    now,                \* wall clock (hours)
    crashes,            \* restarts so far
    synced,             \* archives a catch-up was requested for since the start
    handlers,           \* GlobalEventsDispatcher.handlers
    last_op             \* the handler that ran last, its inputs and what it did

vars == <<logger, disk, mam_query_ids, catch_up_finished, next_id, pending,
          config, now, crashes, synced, handlers, last_op>>

\* ------------------------------------------------- GlobalEventsDispatcher

MaxHandlers == 3

PRECORE == 10
CORE == 20
POSTCORE == 30

\* the events that handlers are registered for
EventNames == {"mam-message-received", "mam-decrypted-message-received"}

\* the functions registered as handlers
Handlers == {"h1", "h2"}

\* what a handler does when it is called: it returns a true value, returns a
\* false value or nothing, raises NodeProcessed, raises another Exception
Results == {"true", "false", "NodeProcessed", "Exception"}

\* GlobalEventsDispatcher.__init__: no event has a handler. An event without
\* entry in the dict and one with an empty list are the same here: neither
\* calls a handler, and registering gives a list of one in both cases
NoHandlers == [e \in EventNames |-> <<>>]

\* a tuple of the list of an event, with its rank among the tuples of the list
\* in the order of their registration
Entry(priority, handler, reg) ==
    [priority |-> priority, handler |-> handler, reg |-> reg]

\* list.insert(i, x), i counted from 0; an index beyond the end appends
list_insert(list, i, x) ==
    LET k == IF i > Len(list) THEN Len(list) ELSE i
    IN  SubSeq(list, 1, k) \o <<x>> \o SubSeq(list, k + 1, Len(list))

\* the ranks of the tuples that are left when one is removed
without_reg(list, reg) ==
    [k \in 1..Len(list) |->
        [list[k] EXCEPT !.reg = IF @ > reg THEN @ - 1 ELSE @]]

\* register_event_handler putting the handler before the ones of its priority
register_event_handler_before_equal(list, priority, handler) ==
    LET smaller == {k \in 1..Len(list) : priority <= list[k].priority}
        i == IF smaller # {}
             THEN (CHOOSE k \in smaller : \A n \in smaller : k <= n) - 1
             ELSE IF Len(list) = 0 THEN 1 ELSE Len(list)
    IN  list_insert(list, i, Entry(priority, handler, Len(list) + 1))

\* GlobalEventsDispatcher.register_event_handler: the list of the event after
\* the call. i is the index of the first tuple with a greater priority, or
\* the last index plus one
register_event_handler(list, priority, handler) ==
    LET smaller == {k \in 1..Len(list) : priority < list[k].priority}
        i == IF smaller # {}
             THEN (CHOOSE k \in smaller : \A n \in smaller : k <= n) - 1
             ELSE IF Len(list) = 0 THEN 1 ELSE Len(list)
    IN  list_insert(list, i, Entry(priority, handler, Len(list) + 1))

\* GlobalEventsDispatcher.remove_event_handler: list.remove of the first
\* tuple with this priority and handler; without one the list stays
remove_event_handler(list, priority, handler) ==
    LET found == {k \in 1..Len(list) :
                    list[k].priority = priority /\ list[k].handler = handler}
        i == CHOOSE k \in found : \A n \in found : k <= n
    IN  IF found = {} THEN list
        ELSE without_reg(SubSeq(list, 1, i - 1)
                            \o SubSeq(list, i + 1, Len(list)),
                         list[i].reg)

\* GlobalEventsDispatcher.raise_event from the i-th tuple of the list on:
\* the calls made, each with what the handler did, and how the call ends.
\* does[k] is what the k-th handler of the list does when it is called
RECURSIVE raise_event(_, _, _, _)
raise_event(list, does, i, node_processed) ==
    IF i > Len(list)
    THEN [calls |-> <<>>,
          outcome |-> IF node_processed THEN "NodeProcessed" ELSE "None"]
    ELSE LET call == [entry |-> list[i], result |-> does[i]]
             rest == raise_event(list, does, i + 1,
                                 node_processed \/ does[i] = "NodeProcessed")
         IN  IF does[i] = "true"
             THEN [calls |-> <<call>>, outcome |-> "True"]
             ELSE [calls |-> <<call>> \o rest.calls,
                   outcome |-> rest.outcome]

\* ------------------------------------------------------------------ Logger

\* The tables of the log database (LOGS_SQL_STATEMENT), empty
\* logs_seq: the largest log_line_id given so far (sqlite_sequence of the
\* AUTOINCREMENT key)
EmptyTables ==
    [jids |-> {}, logs |-> {}, unread |-> {}, archive |-> {}, logs_seq |-> 0]

Tables(lg) ==
    [jids |-> lg.jids, logs |-> lg.logs, unread |-> lg.unread,
     archive |-> lg.archive, logs_seq |-> lg.logs_seq]

\* Logger.__init__: connect, then _get_jid_ids_from_db fills both caches
LoggerOpen(tables) ==
    [jids |-> tables.jids, logs |-> tables.logs, unread |-> tables.unread,
     archive |-> tables.archive, logs_seq |-> tables.logs_seq,
     jid_ids |-> tables.jids,
     jid_ids_reversed |-> tables.jids,
     commit_timout_id |-> FALSE]

\* Logger._timeout_commit: arm the 500 ms commit timer unless it is armed
timeout_commit(lg) ==
    [lg EXCEPT !.commit_timout_id = TRUE]

\* rows of a set of jid rows whose jid is the given address
RowsOf(rows, jid) == {r \in rows : r.jid = jid}

\* get_jid_id storing the type of the call over the type of the identity
get_jid_id_retype(lg, jid, kind, type_) ==
    LET ty == IF kind \in {GC_MSG, GCSTATUS} THEN ROOM_TYPE
              ELSE IF kind # NoKind THEN NORMAL_TYPE
              ELSE type_
        cached == RowsOf(lg.jid_ids, jid)
        newid == Cardinality(lg.jids) + 1
        row == [jid_id |-> newid, jid |-> jid, type |-> ty]
        old == CHOOSE r \in cached : TRUE
        retyped == [old EXCEPT !.type = IF ty = NoType THEN @ ELSE ty]
    IN  IF cached # {}
        THEN [lg |-> [lg EXCEPT !.jids = (@ \ {old}) \cup {retyped},
                                !.jid_ids = (@ \ {old}) \cup {retyped}],
              ret |-> old.jid_id, raised |-> FALSE]
        ELSE IF ty = NoType
        THEN [lg |-> lg, ret |-> NoId, raised |-> TRUE]
        ELSE [lg |-> timeout_commit(
                        [lg EXCEPT !.jids = @ \cup {row},
                                   !.jid_ids = @ \cup {row}]),
              ret |-> newid, raised |-> FALSE]

\* get_jid_id inserting an address without a type as a contact
get_jid_id_hint_first(lg, jid, kind, type_) ==
    LET ty == IF type_ # NoType THEN type_
              ELSE IF kind \in {GC_MSG, GCSTATUS} THEN ROOM_TYPE
              ELSE IF kind # NoKind THEN NORMAL_TYPE
              ELSE type_
        cached == RowsOf(lg.jid_ids, jid)
        stored == RowsOf(lg.jids, jid)
        newid == Cardinality(lg.jids) + 1
        row == [jid_id |-> newid, jid |-> jid, type |-> ty]
    IN  IF cached # {}
        THEN [lg |-> lg, ret |-> (CHOOSE r \in cached : TRUE).jid_id,
              raised |-> FALSE]
        ELSE IF stored # {}
        THEN [lg |-> [lg EXCEPT !.jid_ids = @ \cup stored],
              ret |-> (CHOOSE r \in stored : TRUE).jid_id,
              raised |-> FALSE]
        ELSE IF ty = NoType
        THEN [lg |-> lg, ret |-> NoId, raised |-> TRUE]
        ELSE [lg |-> timeout_commit(
                        [lg EXCEPT !.jids = @ \cup {row},
                                   !.jid_ids = @ \cup {row}]),
              ret |-> newid, raised |-> FALSE]

get_jid_id_default_type(lg, jid, kind, type_) ==
    LET ty == IF kind \in {GC_MSG, GCSTATUS} THEN ROOM_TYPE
              ELSE IF kind # NoKind THEN NORMAL_TYPE
              ELSE IF type_ = NoType THEN NORMAL_TYPE
              ELSE type_
        cached == RowsOf(lg.jid_ids, jid)
        newid == Cardinality(lg.jids) + 1
        row == [jid_id |-> newid, jid |-> jid, type |-> ty]
    IN  IF cached # {}
        THEN [lg |-> lg, ret |-> (CHOOSE r \in cached : TRUE).jid_id,
              raised |-> FALSE]
        ELSE [lg |-> timeout_commit(
                        [lg EXCEPT !.jids = @ \cup {row},
                                   !.jid_ids = @ \cup {row}]),
              ret |-> newid, raised |-> FALSE]

\* Logger.get_jid_id: cache, then table, then insert (needs a type)
get_jid_id(lg, jid, kind, type_) ==
    LET ty == IF kind \in {GC_MSG, GCSTATUS} THEN ROOM_TYPE
              ELSE IF kind # NoKind THEN NORMAL_TYPE
              ELSE type_
        cached == RowsOf(lg.jid_ids, jid)
        stored == RowsOf(lg.jids, jid)
        newid == Cardinality(lg.jids) + 1
        row == [jid_id |-> newid, jid |-> jid, type |-> ty]
    IN  IF cached # {}
        THEN [lg |-> lg, ret |-> (CHOOSE r \in cached : TRUE).jid_id,
              raised |-> FALSE]
        ELSE IF stored # {}
        THEN [lg |-> [lg EXCEPT !.jid_ids = @ \cup stored],
              ret |-> (CHOOSE r \in stored : TRUE).jid_id,
              raised |-> FALSE]
        ELSE IF ty = NoType
        THEN [lg |-> lg, ret |-> NoId, raised |-> TRUE]
        ELSE [lg |-> timeout_commit(
                        [lg EXCEPT !.jids = @ \cup {row},
                                   !.jid_ids = @ \cup {row}]),
              ret |-> newid, raised |-> FALSE]

\* Logger.get_account_id
get_account_id(lg) ==
    get_jid_id(lg, OwnJid, NoKind, NORMAL_TYPE)

\* Logger.get_archive_infos: the row of last_archive_message, if any
get_archive_infos(lg, jid) ==
    LET r == get_jid_id(lg, jid, NoKind, ROOM_TYPE)
    IN  [lg |-> r.lg, rows |-> {a \in r.lg.archive : a.jid_id = r.ret}]

\* keyword arguments of set_archive_infos; an argument left out is None
NoArgs ==
    [last_mam_id |-> None, oldest_mam_timestamp |-> Null,
     last_muc_timestamp |-> Null, sync_threshold |-> Null]

\* one row of last_archive_message updated with the arguments that have a value
UpdatedRow(a, kw) ==
    [jid_id |-> a.jid_id,
     last_mam_id |-> IF kw.last_mam_id # None
                     THEN kw.last_mam_id ELSE a.last_mam_id,
     oldest_mam_timestamp |-> IF kw.oldest_mam_timestamp # Null
                     THEN kw.oldest_mam_timestamp ELSE a.oldest_mam_timestamp,
     last_muc_timestamp |-> IF kw.last_muc_timestamp # Null
                     THEN kw.last_muc_timestamp ELSE a.last_muc_timestamp,
     sync_threshold |-> IF kw.sync_threshold # Null
                     THEN kw.sync_threshold ELSE a.sync_threshold]

\* Logger.set_archive_infos: insert the row, or update the given columns
set_archive_infos(lg, jid, kw) ==
    LET r == get_jid_id(lg, jid, NoKind, NoType)
        g == get_archive_infos(r.lg, jid)
        new == [jid_id |-> r.ret,
                last_mam_id |-> kw.last_mam_id,
                oldest_mam_timestamp |-> kw.oldest_mam_timestamp,
                last_muc_timestamp |-> kw.last_muc_timestamp,
                sync_threshold |-> kw.sync_threshold]
    IN  IF r.raised
        THEN [lg |-> r.lg, raised |-> TRUE]
        ELSE IF g.rows = {}
        THEN [lg |-> timeout_commit(
                        [g.lg EXCEPT !.archive = @ \cup {new}]),
              raised |-> FALSE]
        ELSE IF kw = NoArgs
        THEN \* UPDATE with an empty SET clause: sqlite raises
             [lg |-> g.lg, raised |-> TRUE]
        ELSE [lg |-> timeout_commit(
                        [g.lg EXCEPT !.archive =
                            {IF a \in g.rows THEN UpdatedRow(a, kw) ELSE a
                             : a \in @}]),
              raised |-> FALSE]

\* search_for_duplicate without the two ends of the window
search_for_duplicate_open(lg, jid, time_, msg) ==
    LET acc == get_account_id(lg)
        start_time == time_ - 30
        end_time == time_ + 30
    IN  [lg |-> acc.lg,
         found |-> \E r \in acc.lg.logs, j \in acc.lg.jids :
                        /\ j.jid_id = r.jid_id
                        /\ j.jid = jid
                        /\ r.message = msg
                        /\ r.account_id = acc.ret
                        /\ start_time < r.time /\ r.time < end_time]

\* Logger.search_for_duplicate: a row of the same conversation and account
\* with the same text, at most 30 seconds away
search_for_duplicate(lg, jid, time_, msg) ==
    LET acc == get_account_id(lg)
        start_time == time_ - 30
        end_time == time_ + 30
    IN  [lg |-> acc.lg,
         found |-> \E r \in acc.lg.logs, j \in acc.lg.jids :
                        /\ j.jid_id = r.jid_id
                        /\ j.jid = jid
                        /\ r.message = msg
                        /\ r.account_id = acc.ret
                        /\ start_time <= r.time /\ r.time <= end_time]

\* find_stanza_id searching for the stanza-id only
find_stanza_id_no_origin(lg, archive_jid, stanza_id, origin_id, groupchat) ==
    LET ids == {stanza_id} \ {None}
        type_ == IF groupchat THEN ROOM_TYPE ELSE NORMAL_TYPE
        arc == get_jid_id(lg, archive_jid, NoKind, type_)
        acc == get_account_id(arc.lg)
    IN  IF ids = {} THEN [lg |-> lg, found |-> FALSE]
        ELSE [lg |-> acc.lg,
              found |-> IF groupchat
                        THEN \E r \in acc.lg.logs :
                                /\ r.stanza_id \in ids
                                /\ r.jid_id = arc.ret
                                /\ r.account_id = acc.ret
                        ELSE \E r \in acc.lg.logs :
                                /\ r.stanza_id \in ids
                                /\ r.account_id = acc.ret
                                /\ r.kind # GC_MSG]

\* find_stanza_id without the filter on the kind of the row
find_stanza_id_any_kind(lg, archive_jid, stanza_id, origin_id, groupchat) ==
    LET ids == {stanza_id, origin_id} \ {None}
        type_ == IF groupchat THEN ROOM_TYPE ELSE NORMAL_TYPE
        arc == get_jid_id(lg, archive_jid, NoKind, type_)
        acc == get_account_id(arc.lg)
    IN  IF ids = {} THEN [lg |-> lg, found |-> FALSE]
        ELSE [lg |-> acc.lg,
              found |-> IF groupchat
                        THEN \E r \in acc.lg.logs :
                                /\ r.stanza_id \in ids
                                /\ r.jid_id = arc.ret
                                /\ r.account_id = acc.ret
                        ELSE \E r \in acc.lg.logs :
                                /\ r.stanza_id \in ids
                                /\ r.account_id = acc.ret]

\* find_stanza_id without the filter on the archive of a groupchat
find_stanza_id_any_room(lg, archive_jid, stanza_id, origin_id, groupchat) ==
    LET ids == {stanza_id, origin_id} \ {None}
        type_ == IF groupchat THEN ROOM_TYPE ELSE NORMAL_TYPE
        arc == get_jid_id(lg, archive_jid, NoKind, type_)
        acc == get_account_id(arc.lg)
    IN  IF ids = {} THEN [lg |-> lg, found |-> FALSE]
        ELSE [lg |-> acc.lg,
              found |-> IF groupchat
                        THEN \E r \in acc.lg.logs :
                                /\ r.stanza_id \in ids
                                /\ r.account_id = acc.ret
                        ELSE \E r \in acc.lg.logs :
                                /\ r.stanza_id \in ids
                                /\ r.account_id = acc.ret
                                /\ r.kind # GC_MSG]

\* Logger.find_stanza_id: a row whose stanza_id is one of the two ids; of the
\* archive's jid for a groupchat, else of any kind but GC_MSG
find_stanza_id(lg, archive_jid, stanza_id, origin_id, groupchat) ==
    LET ids == {stanza_id, origin_id} \ {None}
        type_ == IF groupchat THEN ROOM_TYPE ELSE NORMAL_TYPE
        arc == get_jid_id(lg, archive_jid, NoKind, type_)
        acc == get_account_id(arc.lg)
    IN  IF ids = {} THEN [lg |-> lg, found |-> FALSE]
        ELSE [lg |-> acc.lg,
              found |-> IF groupchat
                        THEN \E r \in acc.lg.logs :
                                /\ r.stanza_id \in ids
                                /\ r.jid_id = arc.ret
                                /\ r.account_id = acc.ret
                        ELSE \E r \in acc.lg.logs :
                                /\ r.stanza_id \in ids
                                /\ r.account_id = acc.ret
                                /\ r.kind # GC_MSG]

\* insert_into_logs marking a message of any kind as unread
insert_into_logs_any_kind(lg, jid, time_, kind, unread, message, stanza_id, message_id) ==
    LET j == get_jid_id(lg, jid, kind, NoType)
        acc == get_account_id(j.lg)
        lastrowid == acc.lg.logs_seq + 1
        row == [log_line_id |-> lastrowid, account_id |-> acc.ret,
                jid_id |-> j.ret, time |-> time_, kind |-> kind,
                message |-> message, stanza_id |-> stanza_id,
                message_id |-> message_id]
        marker == [message_id |-> lastrowid, jid_id |-> j.ret,
                   shown |-> FALSE]
    IN  timeout_commit(
            [acc.lg EXCEPT !.logs = @ \cup {row},
                           !.logs_seq = lastrowid,
                           !.unread = IF unread THEN @ \cup {marker} ELSE @])

\* Logger.insert_into_logs with the columns that MAM fills
insert_into_logs(lg, jid, time_, kind, unread, message, stanza_id, message_id) ==
    LET j == get_jid_id(lg, jid, kind, NoType)
        acc == get_account_id(j.lg)
        lastrowid == acc.lg.logs_seq + 1
        row == [log_line_id |-> lastrowid, account_id |-> acc.ret,
                jid_id |-> j.ret, time |-> time_, kind |-> kind,
                message |-> message, stanza_id |-> stanza_id,
                message_id |-> message_id]
        marker == [message_id |-> lastrowid, jid_id |-> j.ret,
                   shown |-> FALSE]
    IN  timeout_commit(
            [acc.lg EXCEPT !.logs = @ \cup {row},
                           !.logs_seq = lastrowid,
                           !.unread = IF unread /\ kind = CHAT_MSG_RECV
                                      THEN @ \cup {marker} ELSE @])

\* the stored cursor of an archive as a reader of the given tables finds it
CursorOf(tables, jid) ==
    LET rows == {a \in tables.archive :
                    \E j \in tables.jids : j.jid = jid /\ j.jid_id = a.jid_id}
    IN  IF rows = {} THEN None ELSE (CHOOSE a \in rows : TRUE).last_mam_id

\* ------------------------------------------------------------ connection

\* an archive query as _get_archive_query builds it, with the arguments
\* SendAndCallForResponse keeps for the callback
Query(kind, jid, query_id, start, after, groupchat) ==
    [kind |-> kind, jid |-> jid, query_id |-> query_id, start |-> start,
     after |-> after, groupchat |-> groupchat,
     \* not sent: the start date of the first query of the catch-up
     first_start |-> start]

NullQuery == Query("none", None, NoId, Null, None, FALSE)

\* the result IQ of a query: its type and what the fin element carries
Stanza(type, last, complete) ==
    [type |-> type, last |-> last, complete |-> complete]

NullStanza == Stanza("none", None, FALSE)

Stanzas ==
    {Stanza(t, None, FALSE) : t \in {"error", "nofin", "noset"}}
    \cup {Stanza("result", l, c) : l \in Cursors \cup {None}, c \in BOOLEAN}

\* an archived message as nbxmpp hands it to the handlers (properties): the
\* message type and addresses, the ids, the archive it comes from and the
\* query it answers, the namespace of the result, the body and the time
Msg(is_groupchat, jid, from_, is_self_message, is_muc_pm, mam_id, id, archive, query_id, namespace, body, time) ==
    [is_groupchat |-> is_groupchat, jid |-> jid, from_ |-> from_,
     is_self_message |-> is_self_message, is_muc_pm |-> is_muc_pm,
     mam_id |-> mam_id, id |-> id, archive |-> archive,
     query_id |-> query_id, namespace |-> namespace, body |-> body,
     time |-> time]

NullMsg ==
    Msg(FALSE, None, None, FALSE, FALSE, None, None, None, NoId, None, "", Null)

\* what a handler did: its name and inputs (the archive, the start date of the
\* query answered, the result), what it found when it was called (the query
\* id registered for the archive, the stored cursor, whether it is the first
\* request for the archive since the start), the queries it sent, whether it
\* raised an exception; for an archived message, the message once it got to
\* the search for duplicates, and what became of it
Op(op, jid, guard, query, stanza, sent, raised) ==
    [op |-> op, jid |-> jid, guard |-> guard, start |-> query.start,
     stanza |-> stanza, sent |-> sent, raised |-> raised,
     cursor |-> CursorOf(Tables(logger), jid),
     first |-> jid \notin synced,
     msg |-> NullMsg, outcome |-> "none",
     boot |-> query.first_start, events |-> {},
     \* for a call of the logger: its other arguments and what it returned
     args |-> <<>>, ret |-> NoId]

\* ------------------------------------------------------------------- MAM

\* list.remove(x) guarded by `x in list`: drop the first occurrence
RECURSIVE RemoveFirst(_, _)
RemoveFirst(s, x) ==
    IF s = <<>> THEN <<>>
    ELSE IF Head(s) = x THEN Tail(s)
    ELSE <<Head(s)>> \o RemoveFirst(Tail(s), x)

InList(s, x) == \E i \in 1..Len(s) : s[i] = x

\* MAM.is_catch_up_finished
is_catch_up_finished(jid) == InList(catch_up_finished, jid)

\* `jid in self._mam_query_ids`
query_running(ids, jid) == ids[jid] # NoId

\* _parse_iq without the check for the set element
parse_iq_ok_no_set_check(stanza) == stanza.type \in {"result", "noset"}

\* MAM._parse_iq: raises InvalidMamIQ unless a result with fin and set
parse_iq_ok(stanza) == stanza.type = "result"

\* datetime.timestamp() of the naive UTC datetime that utcnow() returned:
\* the value is read as local time, off hours east of UTC
timestamp(start_date, off) == start_date - off

\* helpers.get_sync_threshold
get_sync_threshold(lg, jid, rows) ==
    IF rows = {} \/ (\A a \in rows : a.sync_threshold = Null)
    THEN [lg |-> set_archive_infos(lg, jid,
                    [NoArgs EXCEPT !.sync_threshold = config.sync_threshold]).lg,
          threshold |-> config.sync_threshold]
    ELSE [lg |-> lg, threshold |-> (CHOOSE a \in rows : TRUE).sync_threshold]

\* request_archive_on_signin reading the cursor from the configuration only
signin_mam_id_config_only(rows, legacy) == legacy

\* request_archive_on_signin: the cursor of the stored row, or without a row
\* the one that an earlier version left in the configuration
signin_mam_id(rows, legacy) ==
    IF rows # {} THEN (CHOOSE a \in rows : TRUE).last_mam_id ELSE legacy

\* MAM.request_archive_on_signin
RequestArchiveOnSignin ==
    LET g == get_archive_infos(logger, OwnJid)
        from_db == g.rows # {}
        mam_id == signin_mam_id(g.rows, config.last_mam_id)
        start_date == IF mam_id # None THEN Null
                      ELSE now - BootstrapDaysOwn * Day
        query == Query("catchup", OwnJid, next_id, start_date, mam_id, FALSE)
    IN  IF query_running(mam_query_ids, OwnJid)
        THEN /\ last_op' = Op("signin", OwnJid, mam_query_ids[OwnJid],
                              NullQuery, NullStanza, {}, FALSE)
             /\ UNCHANGED <<logger, disk, mam_query_ids, catch_up_finished,
                            next_id, pending, config, now, crashes, synced>>
        ELSE /\ next_id <= MaxQueryId
             /\ logger' = g.lg
             /\ config' = IF ~from_db /\ mam_id # None
                          THEN [config EXCEPT !.last_mam_id = None]
                          ELSE config
             /\ mam_query_ids' = [mam_query_ids EXCEPT ![OwnJid] = next_id]
             /\ next_id' = next_id + 1
             /\ catch_up_finished' = RemoveFirst(catch_up_finished, OwnJid)
             /\ pending' = pending \cup {query}
             /\ synced' = synced \cup {OwnJid}
             /\ last_op' = Op("signin", OwnJid, NoId, NullQuery, NullStanza,
                              {query}, FALSE)
             /\ UNCHANGED <<disk, now, crashes>>

\* muc_start_date with the bootstrap window of the personal archive
muc_start_date_week(last_mam_id, last_muc_timestamp, threshold, utcnow) ==
    LET last_timestamp == IF last_muc_timestamp = Null THEN 0
                          ELSE last_muc_timestamp
    IN  IF last_mam_id = None
        THEN utcnow - BootstrapDaysOwn * Day
        ELSE IF threshold = NO_THRESHOLD THEN Null
        ELSE IF utcnow - last_timestamp > threshold * Day
        THEN utcnow - threshold * Day
        ELSE Null

\* muc_start_date taking a missing last_muc_timestamp for the present
muc_start_date_no_timestamp(last_mam_id, last_muc_timestamp, threshold, utcnow) ==
    LET last_timestamp == IF last_muc_timestamp = Null THEN utcnow
                          ELSE last_muc_timestamp
    IN  IF last_mam_id = None
        THEN utcnow - BootstrapDaysMuc * Day
        ELSE IF threshold = NO_THRESHOLD THEN Null
        ELSE IF utcnow - last_timestamp > threshold * Day
        THEN utcnow - threshold * Day
        ELSE Null

\* request_archive_on_muc_join: the start date of the query, Null when the
\* query continues after the stored cursor
muc_start_date(last_mam_id, last_muc_timestamp, threshold, utcnow) ==
    LET last_timestamp == IF last_muc_timestamp = Null THEN 0
                          ELSE last_muc_timestamp
    IN  IF last_mam_id = None
        THEN utcnow - BootstrapDaysMuc * Day
        ELSE IF threshold = NO_THRESHOLD THEN Null
        ELSE IF utcnow - last_timestamp > threshold * Day
        THEN utcnow - threshold * Day
        ELSE Null

\* MAM.request_archive_on_muc_join
RequestArchiveOnMucJoin(jid) ==
    LET g == get_archive_infos(logger, jid)
        t == get_sync_threshold(g.lg, jid, g.rows)
        archive == IF g.rows = {} THEN [last_mam_id |-> None,
                                        last_muc_timestamp |-> Null]
                   ELSE CHOOSE a \in g.rows : TRUE
        start_date == muc_start_date(archive.last_mam_id,
                                     archive.last_muc_timestamp,
                                     t.threshold, now)
        after == IF start_date = Null THEN archive.last_mam_id ELSE None
        query == Query("catchup", jid, next_id, start_date, after, TRUE)
    IN  /\ next_id <= MaxQueryId
        /\ logger' = t.lg
        /\ mam_query_ids' = [mam_query_ids EXCEPT ![jid] = next_id]
        /\ next_id' = next_id + 1
        /\ catch_up_finished' = RemoveFirst(catch_up_finished, jid)
        /\ pending' = pending \cup {query}
        /\ synced' = synced \cup {jid}
        /\ last_op' = Op("muc_join", jid, mam_query_ids[jid], NullQuery,
                         NullStanza, {query}, FALSE)
        /\ UNCHANGED <<disk, config, now, crashes>>

\* dict.pop(jid): the entry is removed (KeyError when there is none)
Pop(ids, jid) == [ids EXCEPT ![jid] = NoId]

\* the events that _result_finished pushes: none, whatever the result is
\* (ArchivingErrorReceived is declared and never pushed)
result_finished_events(stanza) == {}

\* _result_finished without the mark of an archive whose result is empty
ResultFinished_empty_is_dropped(q, stanza, off) ==
    LET jid == q.jid
        registered == query_running(mam_query_ids, jid)
        done == [Op("result", jid, mam_query_ids[jid], q, stanza, {}, FALSE)
                    EXCEPT !.events = result_finished_events(stanza)]
        failed == [done EXCEPT !.raised = TRUE]
        cursor == set_archive_infos(logger, jid,
                      [NoArgs EXCEPT !.last_mam_id = stanza.last])
        final == set_archive_infos(logger, jid,
                      [NoArgs EXCEPT !.last_mam_id = stanza.last,
                                     !.last_muc_timestamp = now])
        oldest == set_archive_infos(final.lg, jid,
                      [NoArgs EXCEPT !.oldest_mam_timestamp =
                                        timestamp(q.start, off)])
        next == [Query("catchup", jid, next_id, Null, stanza.last,
                       q.groupchat) EXCEPT !.first_start = q.first_start]
    IN
    /\ q \in pending
    /\ q.kind = "catchup"
    /\ pending' = (pending \ {q}) \cup
                    (IF parse_iq_ok(stanza) /\ stanza.last # None
                        /\ ~stanza.complete /\ registered /\ ~cursor.raised
                     THEN {next} ELSE {})
    /\ UNCHANGED <<disk, config, now, crashes, synced>>
    /\ IF ~parse_iq_ok(stanza)
       THEN \* InvalidMamIQ: return
            /\ last_op' = done
            /\ UNCHANGED <<logger, mam_query_ids, catch_up_finished, next_id>>
       ELSE IF stanza.last = None
       THEN /\ mam_query_ids' = Pop(mam_query_ids, jid)
            /\ last_op' = IF registered THEN done ELSE failed
            /\ UNCHANGED <<logger, next_id, catch_up_finished>>
       ELSE IF ~stanza.complete
       THEN /\ logger' = cursor.lg
            /\ IF registered /\ ~cursor.raised
               THEN /\ next_id <= MaxQueryId
                    /\ mam_query_ids' = [mam_query_ids EXCEPT ![jid] = next_id]
                    /\ next_id' = next_id + 1
                    /\ last_op' = [done EXCEPT !.sent = {next}]
               ELSE /\ last_op' = failed
                    /\ UNCHANGED <<mam_query_ids, next_id>>
            /\ UNCHANGED catch_up_finished
       ELSE IF ~registered
       THEN \* KeyError of pop, before anything is written
            /\ last_op' = failed
            /\ UNCHANGED <<logger, mam_query_ids, catch_up_finished, next_id>>
       ELSE /\ mam_query_ids' = Pop(mam_query_ids, jid)
            /\ UNCHANGED next_id
            /\ IF final.raised
               THEN /\ logger' = final.lg
                    /\ last_op' = failed
                    /\ UNCHANGED catch_up_finished
               ELSE IF q.start # Null /\ ~q.groupchat
               THEN /\ logger' = oldest.lg
                    /\ last_op' = IF oldest.raised THEN failed ELSE done
                    /\ catch_up_finished' =
                          IF oldest.raised THEN catch_up_finished
                          ELSE Append(catch_up_finished, jid)
               ELSE /\ logger' = final.lg
                    /\ last_op' = done
                    /\ catch_up_finished' = Append(catch_up_finished, jid)

\* MAM._result_finished, called back with the result of a catch-up query.
\* off: the UTC offset of the local time zone when timestamp() is taken
ResultFinished(q, stanza, off) ==
    LET jid == q.jid
        registered == query_running(mam_query_ids, jid)
        done == [Op("result", jid, mam_query_ids[jid], q, stanza, {}, FALSE)
                    EXCEPT !.events = result_finished_events(stanza)]
        failed == [done EXCEPT !.raised = TRUE]
        cursor == set_archive_infos(logger, jid,
                      [NoArgs EXCEPT !.last_mam_id = stanza.last])
        final == set_archive_infos(logger, jid,
                      [NoArgs EXCEPT !.last_mam_id = stanza.last,
                                     !.last_muc_timestamp = now])
        oldest == set_archive_infos(final.lg, jid,
                      [NoArgs EXCEPT !.oldest_mam_timestamp =
                                        timestamp(q.start, off)])
        next == [Query("catchup", jid, next_id, Null, stanza.last,
                       q.groupchat) EXCEPT !.first_start = q.first_start]
    IN
    /\ q \in pending
    /\ q.kind = "catchup"
    /\ pending' = (pending \ {q}) \cup
                    (IF parse_iq_ok(stanza) /\ stanza.last # None
                        /\ ~stanza.complete /\ registered /\ ~cursor.raised
                     THEN {next} ELSE {})
    /\ UNCHANGED <<disk, config, now, crashes, synced>>
    /\ IF ~parse_iq_ok(stanza)
       THEN \* InvalidMamIQ: return
            /\ last_op' = done
            /\ UNCHANGED <<logger, mam_query_ids, catch_up_finished, next_id>>
       ELSE IF stanza.last = None
       THEN /\ catch_up_finished' = Append(catch_up_finished, jid)
            /\ mam_query_ids' = Pop(mam_query_ids, jid)
            /\ last_op' = IF registered THEN done ELSE failed
            /\ UNCHANGED <<logger, next_id>>
       ELSE IF ~stanza.complete
       THEN /\ logger' = cursor.lg
            /\ IF registered /\ ~cursor.raised
               THEN /\ next_id <= MaxQueryId
                    /\ mam_query_ids' = [mam_query_ids EXCEPT ![jid] = next_id]
                    /\ next_id' = next_id + 1
                    /\ last_op' = [done EXCEPT !.sent = {next}]
               ELSE /\ last_op' = failed
                    /\ UNCHANGED <<mam_query_ids, next_id>>
            /\ UNCHANGED catch_up_finished
       ELSE IF ~registered
       THEN \* KeyError of pop, before anything is written
            /\ last_op' = failed
            /\ UNCHANGED <<logger, mam_query_ids, catch_up_finished, next_id>>
       ELSE /\ mam_query_ids' = Pop(mam_query_ids, jid)
            /\ UNCHANGED next_id
            /\ IF final.raised
               THEN /\ logger' = final.lg
                    /\ last_op' = failed
                    /\ UNCHANGED catch_up_finished
               ELSE IF q.start # Null /\ ~q.groupchat
               THEN /\ logger' = oldest.lg
                    /\ last_op' = IF oldest.raised THEN failed ELSE done
                    /\ catch_up_finished' =
                          IF oldest.raised THEN catch_up_finished
                          ELSE Append(catch_up_finished, jid)
               ELSE /\ logger' = final.lg
                    /\ last_op' = done
                    /\ catch_up_finished' = Append(catch_up_finished, jid)

\* MAM.request_archive_interval, called by the user interface (after = None,
\* query_id = None) and by _intervall_result for the next page
request_archive_interval(ids, start_date, after, query_id) ==
    LET qid == IF query_id = NoId THEN next_id ELSE query_id
    IN  [ids |-> [ids EXCEPT ![OwnJid] = qid],
         next_id |-> IF query_id = NoId THEN next_id + 1 ELSE next_id,
         query |-> Query("interval", OwnJid, qid, start_date, after, FALSE)]

RequestArchiveInterval(start_date) ==
    LET r == request_archive_interval(mam_query_ids, start_date, None, NoId)
    IN  /\ next_id <= MaxQueryId
        /\ mam_query_ids' = r.ids
        /\ next_id' = r.next_id
        /\ pending' = pending \cup {r.query}
        /\ last_op' = Op("interval", OwnJid, mam_query_ids[OwnJid], NullQuery,
                         NullStanza, {r.query}, FALSE)
        /\ UNCHANGED <<logger, disk, catch_up_finished, config, now, crashes,
                       synced>>

\* MAM._intervall_result
IntervallResult(q, stanza, off) ==
    LET jid == q.jid
        registered == query_running(mam_query_ids, jid)
        done == Op("interval_result", jid, mam_query_ids[jid], q, stanza,
                   {}, FALSE)
        failed == [done EXCEPT !.raised = TRUE]
        ts == IF q.start # Null THEN timestamp(q.start, off) ELSE 1
        oldest == set_archive_infos(logger, jid,
                      [NoArgs EXCEPT !.oldest_mam_timestamp = ts])
        r == request_archive_interval(Pop(mam_query_ids, jid), q.start,
                                      stanza.last, q.query_id)
        paging == parse_iq_ok(stanza) /\ registered /\ stanza.last # None
                    /\ ~stanza.complete
    IN
    /\ q \in pending
    /\ q.kind = "interval"
    /\ pending' = (pending \ {q}) \cup (IF paging THEN {r.query} ELSE {})
    /\ UNCHANGED <<disk, catch_up_finished, next_id, config, now, crashes,
                   synced>>
    /\ IF ~parse_iq_ok(stanza)
       THEN /\ last_op' = done
            /\ UNCHANGED <<logger, mam_query_ids>>
       ELSE IF ~registered
       THEN /\ last_op' = failed
            /\ UNCHANGED <<logger, mam_query_ids>>
       ELSE IF paging
       THEN /\ mam_query_ids' = r.ids
            /\ last_op' = [done EXCEPT !.sent = {r.query}]
            /\ UNCHANGED logger
       ELSE /\ mam_query_ids' = Pop(mam_query_ids, jid)
            /\ logger' = oldest.lg
            /\ last_op' = IF oldest.raised THEN failed ELSE done

\* MAM.request_archive_count
RequestArchiveCount(start_date) ==
    LET query == Query("count", OwnJid, next_id, start_date, None, FALSE)
    IN  /\ next_id <= MaxQueryId
        /\ mam_query_ids' = [mam_query_ids EXCEPT ![OwnJid] = next_id]
        /\ next_id' = next_id + 1
        /\ pending' = pending \cup {query}
        /\ last_op' = Op("count", OwnJid, mam_query_ids[OwnJid], NullQuery,
                         NullStanza, {query}, FALSE)
        /\ UNCHANGED <<logger, disk, catch_up_finished, config, now, crashes,
                       synced>>

\* MAM._received_count
ReceivedCount(q, stanza) ==
    LET jid == q.jid
        registered == query_running(mam_query_ids, jid)
        done == Op("count_result", jid, mam_query_ids[jid], q, stanza,
                   {}, FALSE)
    IN
    /\ q \in pending
    /\ q.kind = "count"
    /\ pending' = pending \ {q}
    /\ mam_query_ids' = IF parse_iq_ok(stanza) THEN Pop(mam_query_ids, jid)
                        ELSE mam_query_ids
    /\ last_op' = IF parse_iq_ok(stanza) /\ ~registered
                  THEN [done EXCEPT !.raised = TRUE] ELSE done
    /\ UNCHANGED <<logger, disk, catch_up_finished, next_id, config, now,
                   crashes, synced>>

\* JID.getStripped: the bare JID
getStripped(jid) ==
    IF \E r \in Rooms : Occupant[r] = jid
    THEN CHOOSE r \in Rooms : Occupant[r] = jid
    ELSE jid

\* JID.bareMatch
bareMatch(a, b) == getStripped(a) = getStripped(b)

\* MAM._from_valid_archive
from_valid_archive(p) ==
    bareMatch(p.archive, IF p.is_groupchat THEN p.jid ELSE OwnJid)

\* MAM._is_valid_request: the registered id (None without one) is the
\* message's query id (None without one)
is_valid_request(ids, p) == ids[p.archive] = p.query_id

\* _get_unique_id searching for the stanza-id of a message to oneself too
get_unique_id_self_stanza_id(p) ==
    IF p.is_groupchat THEN <<p.mam_id, None>>
    ELSE IF p.is_self_message THEN <<p.mam_id, p.id>>
    ELSE IF p.is_muc_pm THEN <<p.mam_id, p.id>>
    ELSE IF bareMatch(OwnJid, p.from_) THEN <<p.mam_id, p.id>>
    ELSE <<p.mam_id, None>>

\* MAM._get_unique_id: the stanza-id and the origin-id to search for
get_unique_id(p) ==
    IF p.is_groupchat THEN <<p.mam_id, None>>
    ELSE IF p.is_self_message THEN <<None, p.id>>
    ELSE IF p.is_muc_pm THEN <<p.mam_id, p.id>>
    ELSE IF bareMatch(OwnJid, p.from_) THEN <<p.mam_id, p.id>>
    ELSE <<p.mam_id, None>>

\* the kind of log row that _mam_message_received writes
kind_of(p) ==
    IF p.is_groupchat THEN GC_MSG
    ELSE IF bareMatch(p.from_, OwnJid) THEN CHAT_MSG_SENT
    ELSE CHAT_MSG_RECV

\* the jid that _mam_message_received stores the message with
with_of(p) == getStripped(p.jid)

\* the events that _mam_message_received pushes: mam-message-received for
\* every archived message, mam-decrypted-message-received once it is stored
events_pushed_for_all(outcome) ==
    {"mam-message-received", "mam-decrypted-message-received"}

events_pushed(outcome) ==
    IF outcome = "inserted"
    THEN {"mam-message-received", "mam-decrypted-message-received"}
    ELSE {"mam-message-received"}

\* _mam_message_received without the return for a message with no text
mam_message_received_any_body(lg, ids, p) ==
    LET uid == get_unique_id(p)
        f == IF p.namespace = NS_MAM_2
             THEN find_stanza_id(lg, p.archive, uid[1], uid[2],
                                 p.is_groupchat)
             ELSE [lg |-> lg, found |-> FALSE]
        stanza_id == IF p.is_self_message THEN uid[2] ELSE uid[1]
        d == IF p.namespace = NS_MAM_1
             THEN search_for_duplicate(f.lg, with_of(p), p.time, p.body)
             ELSE [lg |-> f.lg, found |-> FALSE]
    IN  IF ~from_valid_archive(p)
        THEN [lg |-> lg, outcome |-> "invalid_archive"]
        ELSE IF ~is_valid_request(ids, p)
        THEN [lg |-> lg, outcome |-> "invalid_query"]
        ELSE IF f.found
        THEN [lg |-> f.lg, outcome |-> "duplicate"]
        ELSE IF p.is_self_message /\ uid[2] = None
        THEN [lg |-> f.lg, outcome |-> "self_no_origin"]
        ELSE IF d.found
        THEN [lg |-> d.lg, outcome |-> "duplicate_mam1"]
        ELSE [lg |-> insert_into_logs(d.lg, with_of(p), p.time, kind_of(p),
                                      FALSE, p.body, stanza_id, p.id),
              outcome |-> "inserted"]

\* _mam_message_received looking up the ids whatever the version
mam_message_received_any_version(lg, ids, p) ==
    LET uid == get_unique_id(p)
        f == find_stanza_id(lg, p.archive, uid[1], uid[2], p.is_groupchat)
        stanza_id == IF p.is_self_message THEN uid[2] ELSE uid[1]
        d == IF p.namespace = NS_MAM_1
             THEN search_for_duplicate(f.lg, with_of(p), p.time, p.body)
             ELSE [lg |-> f.lg, found |-> FALSE]
    IN  IF ~from_valid_archive(p)
        THEN [lg |-> lg, outcome |-> "invalid_archive"]
        ELSE IF ~is_valid_request(ids, p)
        THEN [lg |-> lg, outcome |-> "invalid_query"]
        ELSE IF f.found
        THEN [lg |-> f.lg, outcome |-> "duplicate"]
        ELSE IF p.body = ""
        THEN [lg |-> f.lg, outcome |-> "no_body"]
        ELSE IF p.is_self_message /\ uid[2] = None
        THEN [lg |-> f.lg, outcome |-> "self_no_origin"]
        ELSE IF d.found
        THEN [lg |-> d.lg, outcome |-> "duplicate_mam1"]
        ELSE [lg |-> insert_into_logs(d.lg, with_of(p), p.time, kind_of(p),
                                      FALSE, p.body, stanza_id, p.id),
              outcome |-> "inserted"]

\* MAM._mam_message_received for an archived message: what becomes of the
\* message and of the log database
mam_message_received(lg, ids, p) ==
    LET uid == get_unique_id(p)
        f == IF p.namespace = NS_MAM_2
             THEN find_stanza_id(lg, p.archive, uid[1], uid[2],
                                 p.is_groupchat)
             ELSE [lg |-> lg, found |-> FALSE]
        stanza_id == IF p.is_self_message THEN uid[2] ELSE uid[1]
        d == IF p.namespace = NS_MAM_1
             THEN search_for_duplicate(f.lg, with_of(p), p.time, p.body)
             ELSE [lg |-> f.lg, found |-> FALSE]
    IN  IF ~from_valid_archive(p)
        THEN [lg |-> lg, outcome |-> "invalid_archive"]
        ELSE IF ~is_valid_request(ids, p)
        THEN [lg |-> lg, outcome |-> "invalid_query"]
        ELSE IF f.found
        THEN [lg |-> f.lg, outcome |-> "duplicate"]
        ELSE IF p.body = ""
        THEN [lg |-> f.lg, outcome |-> "no_body"]
        ELSE IF p.is_self_message /\ uid[2] = None
        THEN [lg |-> f.lg, outcome |-> "self_no_origin"]
        ELSE IF d.found
        THEN [lg |-> d.lg, outcome |-> "duplicate_mam1"]
        ELSE [lg |-> insert_into_logs(d.lg, with_of(p), p.time, kind_of(p),
                                      FALSE, p.body, stanza_id, p.id),
              outcome |-> "inserted"]

\* the outcomes of a message that got to the search for duplicates
Searched == {"duplicate", "self_no_origin", "duplicate_mam1", "inserted"}

\* _mam_message_received as a step, while the log holds fewer than max_logs
\* rows
HandleMessage(p, max_logs) ==
    LET r == mam_message_received(logger, mam_query_ids, p)
        op == Op("mam_message", p.archive, mam_query_ids[p.archive],
                 NullQuery, NullStanza, {},
                 r.outcome \in {"invalid_archive", "invalid_query",
                                "duplicate"})
    IN  /\ r.outcome = "inserted" => Cardinality(logger.logs) < max_logs
        /\ logger' = r.lg
        /\ last_op' = [op EXCEPT !.msg = IF r.outcome \in Searched
                                         THEN p ELSE NullMsg,
                                 !.outcome = r.outcome,
                                 !.events = events_pushed(r.outcome)]
        /\ UNCHANGED <<disk, mam_query_ids, catch_up_finished, next_id,
                       pending, config, now, crashes, synced>>

MamMessageReceived(p) == HandleMessage(p, MaxLogs)

\* the archived messages that arrive: of a room, received from and sent to a
\* contact, sent to oneself, received in private from an occupant of a room
Shapes ==
    {<<TRUE, Occupant[r], Occupant[r], FALSE, FALSE>> : r \in Rooms}
    \cup {<<FALSE, c, c, FALSE, FALSE>> : c \in Contacts}
    \cup {<<FALSE, c, OwnJid, FALSE, FALSE>> : c \in Contacts}
    \cup {<<FALSE, OwnJid, OwnJid, TRUE, FALSE>>}
    \cup {<<FALSE, Occupant["room1@muc"], Occupant["room1@muc"], FALSE, TRUE>>}

\* the archive a message of this shape is expected from
ExpectedArchive(sh) == IF sh[1] THEN getStripped(sh[2]) ELSE OwnJid

\* some other archive
OtherArchive(sh) == IF sh[1] THEN OwnJid ELSE "room1@muc"

\* a query id that is not registered for the archive: none at all, or the id
\* of the query of another archive
OtherQueryIds(ids, archive) ==
    ({NoId} \cup {ids[a] : a \in Archives}) \ {ids[archive]}

\* messages from the expected archive under the registered query id, and for
\* each shape a message from another archive and one under another query id
Messages(ids) ==
    {Msg(sh[1], sh[2], sh[3], sh[4], sh[5], sid, oid, ExpectedArchive(sh),
         ids[ExpectedArchive(sh)], ns, body, t) :
        sh \in Shapes, sid \in StanzaIds, oid \in OriginIds,
        ns \in {NS_MAM_1, NS_MAM_2}, body \in Bodies, t \in Timestamps}
    \cup {Msg(sh[1], sh[2], sh[3], sh[4], sh[5], "a", None, OtherArchive(sh),
              ids[OtherArchive(sh)], NS_MAM_2, "hi", 100) : sh \in Shapes}
    \cup UNION {{Msg(sh[1], sh[2], sh[3], sh[4], sh[5], "a", None,
                     ExpectedArchive(sh), qid, NS_MAM_2, "hi", 100) :
                    qid \in OtherQueryIds(ids, ExpectedArchive(sh))} :
                 sh \in Shapes}

\* ------------------------------------------------------------ environment

\* Logger.commit, run by the timer that _timeout_commit armed
Commit ==
    /\ logger.commit_timout_id
    /\ disk' = Tables(logger)
    /\ logger' = [logger EXCEPT !.commit_timout_id = FALSE]
    /\ last_op' = Op("commit", None, NoId, NullQuery, NullStanza, {}, FALSE)
    /\ UNCHANGED <<mam_query_ids, catch_up_finished, next_id, pending, config,
                   now, crashes, synced>>

\* The process dies and is started again: the open transaction is lost,
\* Logger and MAM are constructed anew, no callback of the old process runs
Crash ==
    /\ crashes < MaxCrashes
    /\ crashes' = crashes + 1
    /\ logger' = LoggerOpen(disk)
    /\ mam_query_ids' = [a \in Archives |-> NoId]
    /\ catch_up_finished' = <<>>
    /\ pending' = {}
    /\ synced' = {}
    /\ last_op' = Op("restart", None, NoId, NullQuery, NullStanza, {}, FALSE)
    /\ UNCHANGED <<disk, next_id, config, now>>

\* a day and a half passes
Tick ==
    /\ now < Now0 + MaxTicks * TickHours
    /\ now' = now + TickHours
    /\ last_op' = Op("tick", None, NoId, NullQuery, NullStanza, {}, FALSE)
    /\ UNCHANGED <<logger, disk, mam_query_ids, catch_up_finished, next_id,
                   pending, config, crashes, synced>>

\* ------------------------------------------------------------ specification

Init ==
    /\ logger = LoggerOpen(EmptyTables)
    /\ disk = EmptyTables
    /\ mam_query_ids = [a \in Archives |-> NoId]
    /\ catch_up_finished = <<>>
    /\ next_id = 1
    /\ pending = {}
    /\ config \in [last_mam_id : {None, "c1"},
                   sync_threshold : ConfigThresholds]
    /\ now = Now0
    /\ crashes = 0
    /\ synced = {}
    /\ last_op = Op("init", None, NoId, NullQuery, NullStanza, {}, FALSE)
    /\ handlers = NoHandlers

IntervalStarts == {Null, Now0 - Day}

Next ==
    \/ RequestArchiveOnSignin
    \/ \E jid \in Rooms : RequestArchiveOnMucJoin(jid)
    \/ \E q \in pending, st \in Stanzas, off \in UtcOffsets :
            ResultFinished(q, st, off)
    \/ \E d \in IntervalStarts : RequestArchiveInterval(d)
    \/ \E q \in pending, st \in Stanzas, off \in UtcOffsets :
            IntervallResult(q, st, off)
    \/ \E d \in IntervalStarts : RequestArchiveCount(d)
    \/ \E q \in pending, st \in Stanzas : ReceivedCount(q, st)
    \/ \E p \in Messages(mam_query_ids) : MamMessageReceived(p)
    \/ Commit
    \/ Crash
    \/ Tick

Spec == Init /\ [][Next /\ UNCHANGED handlers]_vars

\* the catch-up of the personal archive and of the rooms
NextSync ==
    \/ RequestArchiveOnSignin
    \/ \E jid \in Rooms : RequestArchiveOnMucJoin(jid)
    \/ \E q \in pending, st \in Stanzas, off \in UtcOffsets :
            ResultFinished(q, st, off)

SpecSync == Init /\ [][NextSync /\ UNCHANGED handlers]_vars

\* the catch-up of the personal archive and of one room, with the commit
\* timer and restarts of the process
NextCrash ==
    \/ RequestArchiveOnSignin
    \/ RequestArchiveOnMucJoin("room1@muc")
    \/ \E q \in pending, st \in Stanzas, off \in UtcOffsets :
            ResultFinished(q, st, off)
    \/ Commit
    \/ Crash

SpecCrash == Init /\ [][NextCrash /\ UNCHANGED handlers]_vars

\* the catch-up of the personal archive and of one room while time passes
NextWindow ==
    \/ RequestArchiveOnSignin
    \/ RequestArchiveOnMucJoin("room1@muc")
    \/ \E q \in pending, st \in Stanzas, off \in UtcOffsets :
            ResultFinished(q, st, off)
    \/ Tick

SpecWindow == Init /\ [][NextWindow /\ UNCHANGED handlers]_vars

\* the catch-up of the personal archive and of one room when the result of
\* every query that was sent is delivered in the end
Deliver ==
    \E q \in pending, st \in Stanzas, off \in UtcOffsets :
        ResultFinished(q, st, off)

NextLive ==
    \/ RequestArchiveOnSignin
    \/ RequestArchiveOnMucJoin("room1@muc")
    \/ Deliver

SpecLive == Init /\ [][NextLive /\ UNCHANGED handlers]_vars /\ WF_vars(Deliver /\ UNCHANGED handlers)

\* One sign-in whose catch-up is a single page: the log holds one message of
\* the contact, received while online; the page delivers three messages with
\* the stanza-ids a, b, c in this order, one of them the message stored
\* already; then the result arrives, marked complete.
PageIds == <<"a", "b", "c">>

PersonalShapes == {sh \in Shapes : ~sh[1] /\ ~sh[4]}

InitPage ==
    /\ \E sid \in {PageIds[i] : i \in 1..Len(PageIds)},
          kind \in {CHAT_MSG_RECV, CHAT_MSG_SENT} :
            /\ logger = insert_into_logs(LoggerOpen(EmptyTables),
                            "alice@server", 100, kind, kind = CHAT_MSG_RECV,
                            "hi", sid, None)
            /\ disk = Tables(logger)
    /\ mam_query_ids = [a \in Archives |-> NoId]
    /\ catch_up_finished = <<>>
    /\ next_id = 1
    /\ pending = {}
    /\ config \in [last_mam_id : {None}, sync_threshold : ConfigThresholds]
    /\ now = Now0
    /\ crashes = 0
    /\ synced = {}
    /\ last_op = Op("init", None, NoId, NullQuery, NullStanza, {}, FALSE)
    /\ handlers = NoHandlers

\* the next message of the page, after the sign-in request or the message
\* before it
PageMessage(i, sh) ==
    /\ IF i = 1 THEN last_op.op = "signin" /\ last_op.sent # {}
       ELSE last_op.op = "mam_message" /\ last_op.msg.mam_id = PageIds[i - 1]
    /\ HandleMessage(Msg(sh[1], sh[2], sh[3], sh[4], sh[5], PageIds[i], None,
                         OwnJid, mam_query_ids[OwnJid], NS_MAM_2, "hi", 100),
                     MaxPageLogs)

\* the result of the query, after the last message of the page
PageResult(q, last, off) ==
    /\ last_op.op = "mam_message"
    /\ last_op.msg.mam_id = PageIds[Len(PageIds)]
    /\ ResultFinished(q, Stanza("result", last, TRUE), off)

NextPage ==
    \/ RequestArchiveOnSignin
    \/ \E i \in 1..Len(PageIds), sh \in PersonalShapes : PageMessage(i, sh)
    \/ \E q \in pending, last \in Cursors, off \in UtcOffsets :
            PageResult(q, last, off)

SpecPage == InitPage /\ [][NextPage /\ UNCHANGED handlers]_vars

\* The same start, a log that holds one message of the contact, unread if it
\* was received; after the sign-in, messages of the personal archive arrive in
\* any order, under either version, with or without text
UnreadMessage(p) ==
    /\ mam_query_ids[OwnJid] # NoId
    /\ MamMessageReceived(p)

NextUnread ==
    \/ RequestArchiveOnSignin
    \/ \E sh \in PersonalShapes, sid \in StanzaIds, oid \in OriginIds,
          ns \in {NS_MAM_1, NS_MAM_2}, body \in Bodies, t \in Timestamps :
            UnreadMessage(Msg(sh[1], sh[2], sh[3], sh[4], sh[5], sid, oid,
                              OwnJid, mam_query_ids[OwnJid], ns, body, t))

SpecUnread == InitPage /\ [][NextUnread /\ UNCHANGED handlers]_vars

\* the account has signed in and joined its rooms: the three catch-up queries
\* are in flight
InitMsg ==
    LET own == get_archive_infos(LoggerOpen(EmptyTables), OwnJid).lg
        r1 == get_archive_infos(own, "room1@muc")
        t1 == set_archive_infos(r1.lg, "room1@muc",
                  [NoArgs EXCEPT !.sync_threshold = NO_THRESHOLD]).lg
        r2 == get_archive_infos(t1, "room2@muc")
        t2 == set_archive_infos(r2.lg, "room2@muc",
                  [NoArgs EXCEPT !.sync_threshold = NO_THRESHOLD]).lg
        q3 == Query("catchup", "room2@muc", 3, Now0 - BootstrapDaysMuc * Day,
                    None, TRUE)
    IN  /\ logger = t2
        /\ disk = EmptyTables
        /\ mam_query_ids = [a \in Archives |->
                                IF a = OwnJid THEN 1
                                ELSE IF a = "room1@muc" THEN 2 ELSE 3]
        /\ catch_up_finished = <<>>
        /\ next_id = 4
        /\ pending = {Query("catchup", OwnJid, 1,
                            Now0 - BootstrapDaysOwn * Day, None, FALSE),
                      Query("catchup", "room1@muc", 2,
                            Now0 - BootstrapDaysMuc * Day, None, TRUE),
                      q3}
        /\ config = [last_mam_id |-> None, sync_threshold |-> NO_THRESHOLD]
        /\ now = Now0
        /\ crashes = 0
        /\ synced = Archives
        /\ last_op = [Op("muc_join", "room2@muc", NoId, NullQuery, NullStanza,
                         {q3}, FALSE) EXCEPT !.first = TRUE]
        /\ handlers = NoHandlers

NextMsg ==
    \E p \in Messages(mam_query_ids) : MamMessageReceived(p)

SpecMsg == InitMsg /\ [][NextMsg /\ UNCHANGED handlers]_vars

\* The same state, and mam:1 messages of the personal archive arrive: with one
\* of two texts, at times that are 10, 30, 31 and 90 seconds apart
FallbackTimes == {100, 110, 130, 131, 190}

FallbackBodies == {"hi", "yo"}

FallbackMessages(ids) ==
    {Msg(sh[1], sh[2], sh[3], sh[4], sh[5], "a", oid, OwnJid, ids[OwnJid],
         NS_MAM_1, body, t) :
        sh \in PersonalShapes, oid \in OriginIds, body \in FallbackBodies,
        t \in FallbackTimes}

NextFallback ==
    \E p \in FallbackMessages(mam_query_ids) : MamMessageReceived(p)

SpecFallback == InitMsg /\ [][NextFallback /\ UNCHANGED handlers]_vars

\* The same state, and mam:1 messages of the two rooms arrive: with one of two
\* texts, at times that are 30, 31, 60 and 61 seconds apart
RoomMessages(ids) ==
    {Msg(TRUE, Occupant[r], Occupant[r], FALSE, FALSE, "a", None, r, ids[r],
         NS_MAM_1, body, t) :
        r \in Rooms, body \in FallbackBodies, t \in {100, 130, 131, 160, 161}}

NextRoomFallback ==
    \E p \in RoomMessages(mam_query_ids) : MamMessageReceived(p)

SpecRoomFallback == InitMsg /\ [][NextRoomFallback /\ UNCHANGED handlers]_vars

\* The catch-up of the personal archive, and messages that
\* arrive at any time, before, during and after a query: from the expected
\* archive or another one, without query id or under any id that a query of
\* this run can have
StrayMessages ==
    {Msg(sh[1], sh[2], sh[3], sh[4], sh[5], "a", None, archive, qid,
         NS_MAM_2, "hi", 100) :
        sh \in {<<TRUE, Occupant["room1@muc"], Occupant["room1@muc"],
                  FALSE, FALSE>>,
                <<FALSE, "alice@server", "alice@server", FALSE, FALSE>>},
        archive \in {OwnJid, "room1@muc"},
        qid \in {NoId} \cup 1..MaxQueryId}

NextStray ==
    \/ RequestArchiveOnSignin
    \/ \E q \in pending, st \in Stanzas, off \in UtcOffsets :
            ResultFinished(q, st, off)
    \/ \E p \in StrayMessages : MamMessageReceived(p)

SpecStray == Init /\ [][NextStray /\ UNCHANGED handlers]_vars

\* A message received while online, as _set_message_archive_info reads it:
\* skipped (an archived message, a pubsub event or a room subject), whether it
\* is of a room, the archive it belongs to, the archiving namespace of that
\* archive (for a room: NoDisco without stored disco info, None without
\* archive), the stanza-id and who assigned it, and the time of the message
NoDisco == "NoDisco"

LiveMsg(skipped, is_groupchat, archive, namespace, stanza_id, by, time) ==
    [skipped |-> skipped, is_groupchat |-> is_groupchat, archive |-> archive,
     namespace |-> namespace, stanza_id |-> stanza_id, by |-> by,
     time |-> time]

\* MAM._set_message_archive_info: what it does to the logger
set_message_archive_info(lg, finished, m) ==
    LET history == set_archive_infos(lg, m.archive,
                      [NoArgs EXCEPT !.last_muc_timestamp = m.time])
        advance == set_archive_infos(lg, m.archive,
                      [NoArgs EXCEPT !.last_mam_id = m.stanza_id,
                                     !.last_muc_timestamp =
                                        IF m.is_groupchat THEN m.time
                                        ELSE Null])
    IN  IF m.skipped
        THEN [lg |-> lg, outcome |-> "skipped", raised |-> FALSE]
        ELSE IF m.is_groupchat /\ m.namespace = NoDisco
        THEN [lg |-> lg, outcome |-> "no_disco", raised |-> FALSE]
        ELSE IF m.is_groupchat /\ m.namespace = None
        THEN [lg |-> history.lg, outcome |-> "muc_history",
              raised |-> history.raised]
        ELSE IF m.stanza_id = None \/ m.namespace # NS_MAM_2
        THEN [lg |-> lg, outcome |-> "no_stanza_id", raised |-> FALSE]
        ELSE IF m.archive # m.by
        THEN [lg |-> lg, outcome |-> "foreign_stanza_id", raised |-> FALSE]
        ELSE IF ~InList(finished, m.archive)
        THEN [lg |-> lg, outcome |-> "catching_up", raised |-> FALSE]
        ELSE [lg |-> advance.lg, outcome |-> "advanced",
              raised |-> advance.raised]

SetMessageArchiveInfo(m) ==
    LET r == set_message_archive_info(logger, catch_up_finished, m)
        op == Op("live_message", m.archive, mam_query_ids[m.archive],
                 NullQuery, NullStanza, {}, r.raised)
    IN  /\ logger' = r.lg
        /\ last_op' = [op EXCEPT !.outcome = r.outcome]
        /\ UNCHANGED <<disk, mam_query_ids, catch_up_finished, next_id,
                       pending, config, now, crashes, synced>>

\* the messages received while online: of the personal archive and of one
\* room, with the stanza-id of the archive, of somebody else, or without
LiveMessages ==
    {LiveMsg(FALSE, FALSE, OwnJid, ns, sid, by, t) :
        ns \in {NS_MAM_1, NS_MAM_2}, sid \in {None, "l1"},
        by \in {OwnJid, "room1@muc"}, t \in {150}}
    \cup {LiveMsg(FALSE, TRUE, "room1@muc", ns, sid, by, t) :
        ns \in {NoDisco, None, NS_MAM_1, NS_MAM_2},
        sid \in {None, "l1"}, by \in {OwnJid, "room1@muc"}, t \in {150}}
    \cup {LiveMsg(TRUE, is_groupchat,
                  IF is_groupchat THEN "room1@muc" ELSE OwnJid, NS_MAM_2,
                  "l1", IF is_groupchat THEN "room1@muc" ELSE OwnJid, t) :
        is_groupchat \in BOOLEAN, t \in {150}}

\* the catch-up of the personal archive and of one room while messages are
\* received online
NextOnline ==
    \/ RequestArchiveOnSignin
    \/ RequestArchiveOnMucJoin("room1@muc")
    \/ \E q \in pending, st \in Stanzas, off \in UtcOffsets :
            ResultFinished(q, st, off)
    \/ \E m \in LiveMessages : SetMessageArchiveInfo(m)

SpecOnline == Init /\ [][NextOnline /\ UNCHANGED handlers]_vars

\* The catch-up of the personal archive and of one room together with the
\* interval and count requests of the history window, and all their results
NextOverlap ==
    \/ RequestArchiveOnSignin
    \/ RequestArchiveOnMucJoin("room1@muc")
    \/ \E q \in pending, st \in Stanzas, off \in UtcOffsets :
            ResultFinished(q, st, off)
    \/ \E d \in IntervalStarts : RequestArchiveInterval(d)
    \/ \E q \in pending, st \in Stanzas, off \in UtcOffsets :
            IntervallResult(q, st, off)
    \/ \E d \in IntervalStarts : RequestArchiveCount(d)
    \/ \E q \in pending, st \in Stanzas : ReceivedCount(q, st)

SpecOverlap == Init /\ [][NextOverlap /\ UNCHANGED handlers]_vars

\* MAM.reset_state: the registered query ids and the caught-up marks are
\* cleared; the callbacks of the queries sent stay with the connection
ResetState ==
    /\ mam_query_ids' = [a \in Archives |-> NoId]
    /\ catch_up_finished' = <<>>
    /\ last_op' = Op("reset_state", None, NoId, NullQuery, NullStanza, {},
                     FALSE)
    /\ UNCHANGED <<logger, disk, next_id, pending, config, now, crashes,
                   synced>>

\* the catch-up of the personal archive with resets of the module, and
\* messages that arrive at any time
NextReset ==
    \/ RequestArchiveOnSignin
    \/ \E q \in pending, st \in Stanzas, off \in UtcOffsets :
            ResultFinished(q, st, off)
    \/ \E p \in StrayMessages : MamMessageReceived(p)
    \/ ResetState

SpecReset == Init /\ [][NextReset /\ UNCHANGED handlers]_vars

\* ------------------------------------------------- the dispatcher alone

MamVars ==
    <<logger, disk, mam_query_ids, catch_up_finished, next_id, pending,
      config, now, crashes, synced>>

\* the number of handlers registered, for all events
NumRegistered ==
    Cardinality({x \in EventNames \X (1..MaxHandlers) :
                    x[2] <= Len(handlers[x[1]])})

RegisterEventHandler(event_name, priority, handler) ==
    /\ NumRegistered < MaxHandlers
    /\ handlers' = [handlers EXCEPT ![event_name] =
                        register_event_handler(@, priority, handler)]
    /\ last_op' = [Op("register_event_handler", event_name, NoId, NullQuery,
                      NullStanza, {}, FALSE)
                        EXCEPT !.args = <<priority, handler>>]
    /\ UNCHANGED MamVars

RemoveEventHandler(event_name, priority, handler) ==
    /\ handlers' = [handlers EXCEPT ![event_name] =
                        remove_event_handler(@, priority, handler)]
    /\ last_op' = [Op("remove_event_handler", event_name, NoId, NullQuery,
                      NullStanza, {}, FALSE)
                        EXCEPT !.args = <<priority, handler>>]
    /\ UNCHANGED MamVars

RaiseEvent(event_name, does) ==
    LET r == raise_event(handlers[event_name], does, 1, FALSE)
    IN  /\ last_op' = [Op("raise_event", event_name, NoId, NullQuery,
                          NullStanza, {}, r.outcome = "NodeProcessed")
                            EXCEPT !.args = <<r.calls>>,
                                   !.outcome = r.outcome]
        /\ UNCHANGED handlers
        /\ UNCHANGED MamVars

NextGed ==
    \/ \E e \in EventNames, priority \in {PRECORE, CORE, POSTCORE}, h \in Handlers :
            RegisterEventHandler(e, priority, h)
    \/ \E e \in EventNames, priority \in {PRECORE, CORE, POSTCORE}, h \in Handlers :
            RemoveEventHandler(e, priority, h)
    \/ \E e \in EventNames :
            \E does \in [1..Len(handlers[e]) -> Results] : RaiseEvent(e, does)

\* the dispatcher after construction; the configuration plays no part
InitGed ==
    /\ Init
    /\ config = [last_mam_id |-> None, sync_threshold |-> NO_THRESHOLD]

SpecGed == InitGed /\ [][NextGed]_vars

\* ------------------------------------------------------- the logger alone

\* The addresses, message kinds and types that get_jid_id is called with
Addresses == Archives \cup Contacts

Kinds == {NoKind, GCSTATUS, GC_MSG, CHAT_MSG_RECV}

Types == {NoType, NORMAL_TYPE, ROOM_TYPE}

\* Logger.get_jid_id as a step
GetJidId(jid, kind, type_) ==
    LET r == get_jid_id(logger, jid, kind, type_)
        op == Op("get_jid_id", jid, NoId, NullQuery, NullStanza, {}, r.raised)
    IN  /\ logger' = r.lg
        /\ last_op' = [op EXCEPT !.args = <<kind, type_>>, !.ret = r.ret,
                                 !.outcome =
                                    IF r.raised THEN "raised"
                                    ELSE IF r.lg.jids # logger.jids
                                    THEN "created"
                                    ELSE "found"]
        /\ UNCHANGED <<disk, mam_query_ids, catch_up_finished, next_id,
                       pending, config, now, crashes, synced>>

\* the logger starts on a database without addresses, or with the address of
\* a room that an earlier run stored
InitResolve ==
    /\ \E stored \in {{}, {[jid_id |-> 1, jid |-> "room1@muc",
                            type |-> ROOM_TYPE]}} :
            /\ logger = LoggerOpen([EmptyTables EXCEPT !.jids = stored])
            /\ disk = [EmptyTables EXCEPT !.jids = stored]
    /\ mam_query_ids = [a \in Archives |-> NoId]
    /\ catch_up_finished = <<>>
    /\ next_id = 1
    /\ pending = {}
    /\ config \in [last_mam_id : {None}, sync_threshold : {0}]
    /\ now = Now0
    /\ crashes = 0
    /\ synced = {}
    /\ last_op = Op("init", None, NoId, NullQuery, NullStanza, {}, FALSE)
    /\ handlers = NoHandlers

NextResolve ==
    \E jid \in Addresses, kind \in Kinds, type_ \in Types :
        GetJidId(jid, kind, type_)

SpecResolve == InitResolve /\ [][NextResolve /\ UNCHANGED handlers]_vars

\* The keyword arguments that set_archive_infos is called with: each one left
\* out (None) or given with a value
ArchiveArgs ==
    [last_mam_id : {None} \cup Cursors,
     oldest_mam_timestamp : {Null, Now0 - 7 * Day},
     last_muc_timestamp : {Null, 100},
     sync_threshold : {Null, 0}]

\* Logger.get_archive_infos as a step
GetArchiveInfos(jid) ==
    LET r == get_archive_infos(logger, jid)
        op == Op("get_archive_infos", jid, NoId, NullQuery, NullStanza, {},
                 FALSE)
    IN  /\ logger' = r.lg
        /\ last_op' = op
        /\ UNCHANGED <<disk, mam_query_ids, catch_up_finished, next_id,
                       pending, config, now, crashes, synced>>

\* Logger.set_archive_infos as a step
SetArchiveInfos(jid, kw) ==
    LET r == set_archive_infos(logger, jid, kw)
        op == Op("set_archive_infos", jid, NoId, NullQuery, NullStanza, {},
                 r.raised)
    IN  /\ logger' = r.lg
        /\ last_op' = [op EXCEPT !.args = <<kw>>]
        /\ UNCHANGED <<disk, mam_query_ids, catch_up_finished, next_id,
                       pending, config, now, crashes, synced>>

ArchiveJids == {OwnJid, "room1@muc"}

NextArchive ==
    \/ \E jid \in ArchiveJids : GetArchiveInfos(jid)
    \/ \E jid \in ArchiveJids, kw \in ArchiveArgs : SetArchiveInfos(jid, kw)

SpecArchive == InitResolve /\ [][NextArchive /\ UNCHANGED handlers]_vars

\* Logger.set_read_messages: delete the unread messages with these ids
set_read_messages(lg, message_ids) ==
    timeout_commit(
        [lg EXCEPT !.unread = {u \in @ : u.message_id \notin message_ids}])

\* set_shown_unread_msgs deleting the unread message
set_shown_unread_msgs_deletes(lg, msg_log_id) ==
    timeout_commit(
        [lg EXCEPT !.unread = {u \in @ : u.message_id # msg_log_id}])

\* Logger.set_shown_unread_msgs: set shown of the unread message with this id
set_shown_unread_msgs(lg, msg_log_id) ==
    timeout_commit(
        [lg EXCEPT !.unread = {IF u.message_id = msg_log_id
                               THEN [u EXCEPT !.shown = TRUE] ELSE u
                               : u \in @}])

\* the unread messages that get_unread_msgs finds in logs, joined with jids
unread_found(lg) ==
    {u \in lg.unread :
        \E r \in lg.logs, j \in lg.jids :
            r.log_line_id = u.message_id /\ r.jid_id = j.jid_id}

\* get_unread_msgs without the removal of the messages it does not find
get_unread_msgs_keeps(lg) ==
    [lg |-> lg,
     ret |-> {<<u.message_id, u.shown>> : u \in unread_found(lg)}]

\* Logger.get_unread_msgs: the unread messages found, with their shown flag;
\* each one not found is removed with set_read_messages
get_unread_msgs(lg) ==
    [lg |-> IF unread_found(lg) = lg.unread THEN lg
            ELSE set_read_messages(lg,
                    {u.message_id : u \in lg.unread \ unread_found(lg)}),
     ret |-> {<<u.message_id, u.shown>> : u \in unread_found(lg)}]

\* what a step of the logger leaves alone
LoggerOnly ==
    UNCHANGED <<disk, mam_query_ids, catch_up_finished, next_id, pending,
                config, now, crashes, synced>>

\* Logger.insert_into_logs as a step, for a message of a chat or of a room
InsertIntoLogs(jid, kind, unread) ==
    /\ logger.logs_seq < MaxLedgerLogs
    /\ logger' = insert_into_logs(logger, jid, 100, kind, unread, "hi", None,
                                  None)
    /\ last_op' = [Op("insert_into_logs", jid, NoId, NullQuery, NullStanza,
                      {}, FALSE)
                    EXCEPT !.args = <<kind, unread>>,
                           !.ret = logger.logs_seq + 1]
    /\ LoggerOnly

SetReadMessages(message_ids) ==
    /\ logger' = set_read_messages(logger, message_ids)
    /\ last_op' = [Op("set_read_messages", None, NoId, NullQuery, NullStanza,
                      {}, FALSE)
                    EXCEPT !.args = <<message_ids>>]
    /\ LoggerOnly

SetShownUnreadMsgs(msg_log_id) ==
    /\ logger' = set_shown_unread_msgs(logger, msg_log_id)
    /\ last_op' = [Op("set_shown_unread_msgs", None, NoId, NullQuery,
                      NullStanza, {}, FALSE)
                    EXCEPT !.args = <<msg_log_id>>]
    /\ LoggerOnly

GetUnreadMsgs ==
    LET r == get_unread_msgs(logger)
    IN  /\ logger' = r.lg
        /\ last_op' = [Op("get_unread_msgs", None, NoId, NullQuery,
                          NullStanza, {}, FALSE)
                        EXCEPT !.args = <<r.ret,
                            {u.message_id : u \in logger.unread \ r.lg.unread}>>]
        /\ LoggerOnly

\* another process (the history manager) deletes a row of logs
DeleteLogRow(row) ==
    /\ row \in logger.logs
    /\ logger' = [logger EXCEPT !.logs = @ \ {row}]
    /\ last_op' = [Op("delete", None, NoId, NullQuery, NullStanza, {}, FALSE)
                    EXCEPT !.args = <<row.log_line_id>>]
    /\ LoggerOnly

\* the conversation and kind of the messages inserted: received from and sent
\* to the contact, and a message of the room
Inserted ==
    {<<"alice@server", CHAT_MSG_RECV>>, <<"alice@server", CHAT_MSG_SENT>>,
     <<"room1@muc", GC_MSG>>}

LogIds == 1..MaxLedgerLogs

NextLedger ==
    \/ \E i \in Inserted, unread \in BOOLEAN :
            InsertIntoLogs(i[1], i[2], unread)
    \/ \E message_ids \in SUBSET LogIds : SetReadMessages(message_ids)
    \/ \E msg_log_id \in LogIds : SetShownUnreadMsgs(msg_log_id)
    \/ GetUnreadMsgs
    \/ \E row \in logger.logs : DeleteLogRow(row)

SpecLedger == InitResolve /\ [][NextLedger /\ UNCHANGED handlers]_vars

\* ORDER BY log_line_id: the order of insertion
Before_by_insertion(r1, r2) == r1.log_line_id < r2.log_line_id

\* ORDER BY time, log_line_id
Before(r1, r2) ==
    \/ r1.time < r2.time
    \/ r1.time = r2.time /\ r1.log_line_id < r2.log_line_id

\* the rows of a set in ascending order
RECURSIVE Ascending(_)
Ascending(rows) ==
    IF rows = {} THEN <<>>
    ELSE LET first == CHOOSE r \in rows :
                        \A o \in rows \ {r} : Before(r, o)
         IN  <<first>> \o Ascending(rows \ {first})

\* ORDER BY time DESC, log_line_id DESC
RECURSIVE Descending(_)
Descending(rows) ==
    IF rows = {} THEN <<>>
    ELSE LET first == CHOOSE r \in rows :
                        \A o \in rows \ {r} : Before(o, r)
         IN  <<first>> \o Descending(rows \ {first})

\* list.reverse()
reverse(seq) == [i \in 1..Len(seq) |-> seq[Len(seq) + 1 - i]]

\* LIMIT n OFFSET k
limit_offset(seq, n, k) ==
    SubSeq(seq, k + 1, IF k + n < Len(seq) THEN k + n ELSE Len(seq))

\* FROM logs NATURAL JOIN jids WHERE jid IN (jids)
rows_of_jids(lg, jids) ==
    {r \in lg.logs : \E j \in lg.jids : j.jid_id = r.jid_id /\ j.jid \in jids}

\* Logger._get_family_jids without metacontacts
get_family_jids(jid) == {jid}

\* the kinds that get_last_conversation_lines selects, of those of the model
LineKinds == {CHAT_MSG_RECV, CHAT_MSG_SENT}

\* Logger.get_last_conversation_lines: restore is the configured number of
\* lines, timeout the value of get_timeout()
get_last_conversation_lines(lg, jid, pending_, restore, timeout) ==
    IF restore <= 0 THEN <<>>
    ELSE reverse(limit_offset(
            Descending({r \in rows_of_jids(lg, get_family_jids(jid)) :
                            r.kind \in LineKinds /\ r.time > timeout}),
            restore, pending_))

\* Logger.get_conversation_for_date: the rows from the start to the end of
\* the day
get_conversation_for_date(lg, jid, start, end) ==
    Ascending({r \in rows_of_jids(lg, get_family_jids(jid)) :
                    start <= r.time /\ r.time <= end})

\* the texts that LIKE '%query%' matches, of those of the model
like(query) ==
    {m \in FallbackBodies :
        \/ query = m
        \/ query = "h" /\ m = "hi"
        \/ query = "o" /\ m = "yo"}

\* Logger.search_log over the complete log
search_log(lg, jid, query) ==
    Ascending({r \in rows_of_jids(lg, get_family_jids(jid)) :
                    r.message \in like(query)})

\* the times of the messages inserted, and the days asked for
RangeTimes == {100, 110}

Days == {<<0, 105>>, <<0, 200>>}

Queries == {"h", "hi", "o"}

\* Logger.insert_into_logs as a step, for a message of the contact or of the
\* room with a text and a time
InsertAt(jid, kind, message, time_) ==
    /\ logger.logs_seq < MaxLedgerLogs
    /\ logger' = insert_into_logs(logger, jid, time_, kind, FALSE, message,
                                  None, None)
    /\ last_op' = [Op("insert_into_logs", jid, NoId, NullQuery, NullStanza,
                      {}, FALSE)
                    EXCEPT !.args = <<kind, FALSE>>,
                           !.ret = logger.logs_seq + 1]
    /\ LoggerOnly

\* a range query as a step: its result is kept in args
RangeQuery(name, jid, result) ==
    /\ last_op' = [Op(name, jid, NoId, NullQuery, NullStanza, {}, FALSE)
                    EXCEPT !.args = <<result>>]
    /\ UNCHANGED logger
    /\ LoggerOnly

GetLastConversationLines(jid, pending_, restore, timeout) ==
    RangeQuery("get_last_conversation_lines", jid,
        get_last_conversation_lines(logger, jid, pending_, restore, timeout))

GetConversationForDate(jid, day) ==
    RangeQuery("get_conversation_for_date", jid,
        get_conversation_for_date(logger, jid, day[1], day[2]))

SearchLog(jid, query) ==
    RangeQuery("search_log", jid, search_log(logger, jid, query))

NextRange ==
    \/ \E i \in Inserted, m \in FallbackBodies, t \in RangeTimes :
            InsertAt(i[1], i[2], m, t)
    \/ \E jid \in {"alice@server", "room1@muc"}, pending_ \in 0..1,
          restore \in 0..2, timeout \in {0, 100} :
            GetLastConversationLines(jid, pending_, restore, timeout)
    \/ \E jid \in {"alice@server", "room1@muc"}, day \in Days :
            GetConversationForDate(jid, day)
    \/ \E jid \in {"alice@server", "room1@muc"}, query \in Queries :
            SearchLog(jid, query)

SpecRange == InitResolve /\ [][NextRange /\ UNCHANGED handlers]_vars

\* ------------------------------------------------------------------ claims

CatchUpsInFlight(jid) ==
    {q \in pending : q.jid = jid /\ q.kind = "catchup"}

IsRequest == last_op.op \in {"signin", "muc_join"}

IsResult == last_op.op = "result"

\* the result that was handled carries a `last` cursor
HasLast == last_op.stanza.type = "result" /\ last_op.stanza.last # None

\* the result that was handled is error-typed or malformed
IsFailure == last_op.stanza.type \in {"error", "nofin", "noset"}

\* C1: every archive has at most one catch-up query in flight, and a sync
\* request made while a query id is registered for its archive sends no query
\* and leaves the registered id in place
C1_OneQueryInFlight ==
    /\ \A jid \in Archives : Cardinality(CatchUpsInFlight(jid)) <= 1
    /\ (IsRequest /\ last_op.guard # NoId) =>
            /\ last_op.sent = {}
            /\ mam_query_ids[last_op.jid] = last_op.guard

\* C3: after a result with a `last` cursor L that is not complete, the stored
\* cursor of the archive is L and exactly one query was sent, for the same
\* archive, after L, without start date, under a fresh id that is registered
C3_NextPageAfterCursor ==
    (IsResult /\ HasLast /\ ~last_op.stanza.complete) =>
        /\ CursorOf(Tables(logger), last_op.jid) = last_op.stanza.last
        /\ Cardinality(last_op.sent) = 1
        /\ \A q \in last_op.sent :
            /\ q \in pending
            /\ q.jid = last_op.jid
            /\ q.after = last_op.stanza.last
            /\ q.start = Null
            /\ q.query_id # last_op.guard
            /\ mam_query_ids[last_op.jid] = q.query_id

\* C4: after a result with a `last` cursor was handled, the stored cursor of
\* its archive is that cursor
C4_CursorIsLastPage ==
    (IsResult /\ HasLast) =>
        CursorOf(Tables(logger), last_op.jid) = last_op.stanza.last

\* the room's sync window does not force a start date: no threshold, or the
\* last message of the room was received within the window
WithinWindow(jid) ==
    \E j \in logger.jids, a \in logger.archive :
        /\ j.jid = jid
        /\ a.jid_id = j.jid_id
        /\ \/ a.sync_threshold = NO_THRESHOLD
           \/ /\ a.last_muc_timestamp # Null
              /\ now - a.last_muc_timestamp <= a.sync_threshold * Day

\* the first sync request for an archive after a restart found a stored cursor
ResumedWithCursor ==
    /\ IsRequest
    /\ crashes > 0
    /\ last_op.first
    /\ last_op.cursor # None

\* the request sent one query, after the cursor it found, without start date
SentAfterCursor ==
    /\ Cardinality(last_op.sent) = 1
    /\ \A q \in last_op.sent :
            q.after = last_op.cursor /\ q.start = Null

\* C5 as claimed: after a restart, the first query for any archive with a
\* persisted cursor continues after that cursor
C5_ResumeAfterCursor ==
    ResumedWithCursor => SentAfterCursor

\* C5: after a restart, the first query for the personal archive, or for a
\* room whose sync window does not force a start date, continues after the
\* persisted cursor
C5_ResumeAfterCursorInWindow ==
    (ResumedWithCursor /\ (last_op.jid = OwnJid \/ WithinWindow(last_op.jid)))
        => SentAfterCursor

C5_Witness ==
    /\ ResumedWithCursor
    /\ last_op.jid \in Rooms
    /\ config.sync_threshold # NO_THRESHOLD
    /\ WithinWindow(last_op.jid)
    /\ SentAfterCursor

\* C6: after the terminal result of a catch-up query was handled (a failure,
\* an empty result or a complete result), no query id is registered for the
\* archive
C6_GuardClearedAtEnd ==
    (IsResult /\ (IsFailure \/ ~HasLast \/ last_op.stanza.complete)) =>
        mam_query_ids[last_op.jid] = NoId

\* C7: handling an error-typed or malformed result sends no query, leaves the
\* log database as it is and marks no archive as caught up
C7_FailureIsAbsorbing ==
    [][(last_op'.op = "result" /\ last_op'.stanza.type # "result") =>
            /\ last_op'.sent = {}
            /\ pending' \subseteq pending
            /\ next_id' = next_id
            /\ Tables(logger') = Tables(logger)
            /\ catch_up_finished' = catch_up_finished]_vars

C7_Witness ==
    /\ IsResult
    /\ IsFailure
    /\ last_op.guard # NoId
    /\ CatchUpsInFlight(last_op.jid) = {}

\* C8: when the query for the next page has been sent, the cursor of the page
\* just received is in the committed database
C8_CursorDurableBeforeNextPage ==
    (IsResult /\ last_op.sent # {}) =>
        CursorOf(disk, last_op.jid) = last_op.stanza.last

\* ------------------------------------------------- claims about messages

\* the last handler run was _mam_message_received with a mam:2 message that
\* got to the search for duplicates
IsMessage2 ==
    /\ last_op.op = "mam_message"
    /\ last_op.msg # NullMsg
    /\ last_op.msg.namespace = NS_MAM_2

\* the stanza-id and the origin-id that a message carries
IdsOfMessage(p) == {p.mam_id, p.id} \ {None}

\* the stanza-id and the origin-id that a row carries
IdsOfRow(r) == {r.stanza_id, r.message_id} \ {None}

\* the conversation of a row
JidOfRow(r) == (CHOOSE j \in logger.jids : j.jid_id = r.jid_id).jid

\* the account of a row is the account of the model
OfAccount(r) ==
    \E j \in logger.jids : j.jid = OwnJid /\ j.jid_id = r.account_id

\* the rows of the archive scope of a message: of its room for a group-chat
\* message, of the personal archive (any row but a group-chat one) otherwise
ScopeOf(p) ==
    {r \in logger.logs :
        /\ OfAccount(r)
        /\ IF p.is_groupchat THEN JidOfRow(r) = p.archive
           ELSE r.kind # GC_MSG}

\* the rows of the scope of the message that are stored under one of its ids
StoredUnderIds(p) ==
    {r \in ScopeOf(p) : r.stanza_id \in IdsOfMessage(p)}

\* the stable id of a message: its stanza-id, or its origin-id for a message
\* to oneself
StableId(p) == IF p.is_self_message THEN p.id ELSE p.mam_id

\* a mam:2 message was stored or recognised as stored already: its scope holds
\* a row under one of its ids, and if the message was stored just now, one row
\* under its stable id
StoredOnce ==
    (IsMessage2 /\ last_op.outcome \in {"inserted", "duplicate"}) =>
        /\ StoredUnderIds(last_op.msg) # {}
        /\ last_op.outcome = "inserted" =>
                Cardinality({r \in ScopeOf(last_op.msg) :
                                r.stanza_id = StableId(last_op.msg)}) = 1

\* the same mam:2 message is handled again, right after it was stored or
\* recognised as stored already
SecondPass ==
    /\ IsMessage2
    /\ last_op.outcome \in {"inserted", "duplicate"}
    /\ last_op'.op = "mam_message"
    /\ last_op'.msg = last_op.msg

\* C2: a mam:2 message that was handled leaves one row under its ids in its
\* scope, and handling it again inserts no row
C2_SecondPassInsertsNothing ==
    [][/\ StoredOnce'
       /\ SecondPass =>
            /\ last_op'.outcome = "duplicate"
            /\ logger'.logs = logger.logs]_vars

\* the second pass of a message: a row with its conversation, text and
\* stanza-id is there already, and the message is dropped as a duplicate
C2_Witness ==
    /\ IsMessage2
    /\ last_op.outcome = "duplicate"
    /\ Cardinality(logger.logs) = 1
    /\ \E r \in ScopeOf(last_op.msg) :
            /\ JidOfRow(r) = with_of(last_op.msg)
            /\ r.message = last_op.msg.body
            /\ r.stanza_id = last_op.msg.mam_id
            /\ r.message_id = last_op.msg.id

\* a row of the scope of the message shares an id with it
SharesAnId(p) ==
    \E r \in ScopeOf(p) : IdsOfRow(r) \cap IdsOfMessage(p) # {}

\* C9 as claimed: a mam:2 message that was not stored shares a stanza-id or an
\* origin-id with a row of its scope
C9_DistinctIdsAreStored ==
    (IsMessage2 /\ last_op.outcome # "inserted") => SharesAnId(last_op.msg)

\* C9: a mam:2 message, other than a message to oneself without origin-id,
\* that was not stored shares a stanza-id or an origin-id with a row of its
\* scope
C9_DistinctIdsAreStoredButSelf ==
    (/\ IsMessage2
     /\ ~(last_op.msg.is_self_message /\ last_op.msg.id = None)
     /\ last_op.outcome # "inserted")
        => SharesAnId(last_op.msg)

\* a message was stored into a scope that held a row already, and the two
\* have no id in common
C9_Witness ==
    /\ IsMessage2
    /\ last_op.outcome = "inserted"
    /\ Cardinality(ScopeOf(last_op.msg)) = 2
    /\ \E r1, r2 \in ScopeOf(last_op.msg) :
            /\ r1.log_line_id < r2.log_line_id
            /\ r2.stanza_id \in IdsOfMessage(last_op.msg)
            /\ IdsOfRow(r1) # {}
            /\ IdsOfRow(r1) \cap IdsOfMessage(last_op.msg) = {}

\* C10: a group-chat mam:2 message is dropped as a duplicate only if a row of
\* its room and account is stored under its stanza-id
C10_DuplicateInSameRoomOnly ==
    (IsMessage2 /\ last_op.msg.is_groupchat /\ last_op.outcome = "duplicate")
        => \E r \in logger.logs :
                /\ OfAccount(r)
                /\ JidOfRow(r) = last_op.msg.archive
                /\ r.stanza_id = last_op.msg.mam_id

\* a group-chat message was stored although a row of another room is stored
\* under its stanza-id
C10_Witness ==
    /\ IsMessage2
    /\ last_op.msg.is_groupchat
    /\ last_op.outcome = "inserted"
    /\ \E r \in logger.logs :
            /\ r.kind = GC_MSG
            /\ JidOfRow(r) \in Rooms \ {last_op.msg.archive}
            /\ r.stanza_id = last_op.msg.mam_id

\* ------------------------------------------- claims about the sync window

\* the row of last_archive_message of an archive
ArchiveRowOf(tables, jid) ==
    CHOOSE a \in tables.archive :
        \E j \in tables.jids : j.jid = jid /\ j.jid_id = a.jid_id

\* the handler sent one query, for its archive, from the start date without
\* cursor
SentFrom(op, start) ==
    /\ Cardinality(op.sent) = 1
    /\ \A q \in op.sent :
            q.jid = op.jid /\ q.start = start /\ q.after = None

\* the handler sent one query, for its archive, after the cursor without
\* start date
SentAfter(op, cursor) ==
    /\ Cardinality(op.sent) = 1
    /\ \A q \in op.sent :
            q.jid = op.jid /\ q.start = Null /\ q.after = cursor

\* C11: without stored cursor and without cursor in the configuration, an
\* accepted sign-in request queries the personal archive from now - 7 days
\* without cursor; without stored cursor, a join queries the archive of the
\* room from now - 1 day without cursor
C11_BootstrapWindows ==
    [][/\ (/\ last_op'.op = "signin"
           /\ last_op'.sent # {}
           /\ CursorOf(Tables(logger), OwnJid) = None
           /\ config.last_mam_id = None)
            => SentFrom(last_op', now - 7 * Day)
       /\ (/\ last_op'.op = "muc_join"
           /\ CursorOf(Tables(logger), last_op'.jid) = None)
            => SentFrom(last_op', now - 1 * Day)]_vars

\* time has passed, a room is joined for the first time while the first query
\* of the personal archive is in flight
C11_Witness ==
    /\ last_op.op = "muc_join"
    /\ last_op.cursor = None
    /\ now > Now0
    /\ SentFrom(last_op, now - Day)
    /\ \E q \in pending :
            q.jid = OwnJid /\ q.after = None /\ q.start = Now0 - 7 * Day

\* the sync window of a room: of its row, else of the configuration
WindowOf(tables, jid) ==
    IF ArchiveRowOf(tables, jid).sync_threshold # Null
    THEN ArchiveRowOf(tables, jid).sync_threshold
    ELSE config.sync_threshold

\* the time the last message of a room was received, 0 when unknown
LastReceivedOf(tables, jid) ==
    IF ArchiveRowOf(tables, jid).last_muc_timestamp = Null THEN 0
    ELSE ArchiveRowOf(tables, jid).last_muc_timestamp

\* C12: a join that finds a stored cursor queries after the cursor without
\* start date when the window is the no-threshold value or the time since the
\* last message is within the window, else from now - window days without
\* cursor
C12_JoinWithCursor ==
    [][(/\ last_op'.op = "muc_join"
        /\ CursorOf(Tables(logger), last_op'.jid) # None)
        => IF \/ WindowOf(Tables(logger), last_op'.jid) = 0
              \/ now - LastReceivedOf(Tables(logger), last_op'.jid)
                    <= WindowOf(Tables(logger), last_op'.jid) * Day
           THEN SentAfter(last_op', CursorOf(Tables(logger), last_op'.jid))
           ELSE SentFrom(last_op',
                    now - WindowOf(Tables(logger), last_op'.jid) * Day)]_vars

\* a room is joined again more than its window after its last message was
\* received
C12_Witness ==
    /\ last_op.op = "muc_join"
    /\ last_op.cursor # None
    /\ ArchiveRowOf(Tables(logger), last_op.jid).last_muc_timestamp # Null
    /\ WindowOf(Tables(logger), last_op.jid) # 0
    /\ SentFrom(last_op, now - WindowOf(Tables(logger), last_op.jid) * Day)

\* the oldest-synced timestamp of an archive, Null without one
OldestOf(tables, jid) ==
    IF \E a \in tables.archive :
            \E j \in tables.jids : j.jid = jid /\ j.jid_id = a.jid_id
    THEN ArchiveRowOf(tables, jid).oldest_mam_timestamp
    ELSE Null

\* C13: when the catch-up of the personal archive that began with a start
\* date ends with an empty or a complete result, the oldest-synced timestamp
\* of the archive is that start date
C13_OldestIsBootstrapStart ==
    (/\ IsResult
     /\ last_op.jid = OwnJid
     /\ last_op.boot # Null
     /\ last_op.stanza.type = "result"
     /\ last_op.stanza.last = None \/ last_op.stanza.complete
     /\ InList(catch_up_finished, OwnJid))
        => OldestOf(Tables(logger), OwnJid) = last_op.boot

\* --------------------------------------------- claims about a whole page

\* the rows of the log that were not there at the start
NewRows == {r \in logger.logs : r.log_line_id > 1}

\* C14: after the complete result of the first query of a sign-in without
\* stored cursor, whose page delivered two new messages and one stored
\* already, the log has two new rows, the stored cursor is the `last` of the
\* result, the oldest-synced timestamp is the start date of the query (now - 7
\* days) and the personal archive is caught up
C14_SinglePageSignin ==
    (IsResult /\ last_op.jid = OwnJid /\ last_op.stanza.complete) =>
        /\ Cardinality(NewRows) = 2
        /\ CursorOf(Tables(logger), OwnJid) = last_op.stanza.last
        /\ last_op.start = now - 7 * Day
        /\ OldestOf(Tables(logger), OwnJid) = last_op.start
        /\ is_catch_up_finished(OwnJid)

\* C14 but for the oldest-synced timestamp
C14_AllButOldest ==
    (IsResult /\ last_op.jid = OwnJid /\ last_op.stanza.complete) =>
        /\ Cardinality(NewRows) = 2
        /\ \A r \in NewRows : r.stanza_id \in {"a", "b", "c"}
        /\ CursorOf(Tables(logger), OwnJid) = last_op.stanza.last
        /\ last_op.start = now - 7 * Day
        /\ is_catch_up_finished(OwnJid)
        /\ mam_query_ids[OwnJid] = NoId

\* ------------------------------------------- claims about single messages

\* the event pushed for a message that was admitted to the log
Admitted == "mam-decrypted-message-received"

\* a message got to the search for duplicates in this step
MessageStep ==
    /\ last_op'.op = "mam_message"
    /\ last_op'.msg # NullMsg

\* the rows written by this step
RowsWritten == logger'.logs \ logger.logs

\* C15: a message to oneself without origin-id is not stored and no
\* admitted-message event is pushed for it; one with an origin-id is, under
\* mam:2, a duplicate exactly if a row of the personal archive is stored under
\* its origin-id, the outcome does not depend on its stanza-id, and the row
\* written for it is stored under the origin-id
C15_SelfMessageByOriginId ==
    [][(MessageStep /\ last_op'.msg.is_self_message) =>
        LET p == last_op'.msg
        IN  /\ p.id = None =>
                /\ RowsWritten = {}
                /\ Admitted \notin last_op'.events
            /\ p.id # None =>
                /\ p.namespace = NS_MAM_2 =>
                    (last_op'.outcome = "duplicate"
                        <=> \E r \in ScopeOf(p) : r.stanza_id = p.id)
                /\ \A sid \in StanzaIds \cup {None} :
                    mam_message_received(logger, mam_query_ids,
                        [p EXCEPT !.mam_id = sid]).outcome = last_op'.outcome
                /\ last_op'.outcome = "inserted" =>
                    /\ Admitted \in last_op'.events
                    /\ \E r \in RowsWritten :
                            RowsWritten = {r} /\ r.stanza_id = p.id]_vars

\* a message to oneself was stored under its origin-id although a row of the
\* personal archive is stored under its stanza-id
C15_Witness ==
    /\ IsMessage2
    /\ last_op.msg.is_self_message
    /\ last_op.msg.id # None
    /\ last_op.msg.mam_id # last_op.msg.id
    /\ last_op.outcome = "inserted"
    /\ \E r1, r2 \in ScopeOf(last_op.msg) :
            /\ r1.log_line_id < r2.log_line_id
            /\ r1.stanza_id = last_op.msg.mam_id
            /\ r2.stanza_id = last_op.msg.id

\* the distance of two times
Distance(t1, t2) == IF t1 < t2 THEN t2 - t1 ELSE t1 - t2

\* the rows of the conversation of the message that carry its text, at most
\* 30 seconds away from it
InWindow(p) ==
    {r \in logger.logs :
        /\ OfAccount(r)
        /\ JidOfRow(r) = with_of(p)
        /\ r.message = p.body
        /\ Distance(r.time, p.time) <= 30}

\* a mam:1 message of a direct chat got to the timestamp window in this step
FallbackStep ==
    /\ MessageStep
    /\ last_op'.msg.namespace = NS_MAM_1
    /\ ~last_op'.msg.is_groupchat
    /\ last_op'.outcome \in {"duplicate_mam1", "inserted"}

FoundById(p) ==
    {r \in ScopeOf(p) :
        r.stanza_id \in ({get_unique_id(p)[1], get_unique_id(p)[2]} \ {None})}

\* C17: a mam:2 message is stored exactly if no row of its scope is stored
\* under the ids searched for, whatever text and time the rows have; a mam:1
\* message is stored exactly if no row of its conversation has its text within
\* the window, whatever ids the rows have
C17_StrategyByVersion ==
    [][(/\ MessageStep
        /\ last_op'.outcome \in {"duplicate", "duplicate_mam1", "inserted"}) =>
        LET p == last_op'.msg
        IN  /\ p.namespace = NS_MAM_2 =>
                /\ last_op'.outcome # "duplicate_mam1"
                /\ last_op'.outcome = "inserted" <=> FoundById(p) = {}
            /\ p.namespace = NS_MAM_1 =>
                /\ last_op'.outcome # "duplicate"
                /\ last_op'.outcome = "inserted" <=> InWindow(p) = {}]_vars

\* a mam:1 message was stored although a row of its scope, with the same text
\* and time in another conversation, is stored under its stanza-id
C17_Witness ==
    /\ last_op.op = "mam_message"
    /\ last_op.msg.namespace = NS_MAM_1
    /\ last_op.outcome = "inserted"
    /\ \E r1, r2 \in ScopeOf(last_op.msg) :
            /\ r1.log_line_id < r2.log_line_id
            /\ r2.time = last_op.msg.time
            /\ r1.stanza_id \in IdsOfMessage(last_op.msg)
            /\ r1.stanza_id = get_unique_id(last_op.msg)[1]
            /\ r1.time = r2.time
            /\ r1.message = r2.message

\* C18: a message found to be a duplicate, by its ids or by the window,
\* leaves the rows of the log and the unread messages as they were, and no
\* admitted-message event is pushed for it
C18_DuplicateChangesNothing ==
    [][(/\ last_op'.op = "mam_message"
        /\ last_op'.outcome \in {"duplicate", "duplicate_mam1"}) =>
            /\ logger'.logs = logger.logs
            /\ logger'.unread = logger.unread
            /\ Admitted \notin last_op'.events]_vars

\* a message was dropped by the window while a message is unread, after
\* another was stored
C18_Witness ==
    /\ last_op.op = "mam_message"
    /\ last_op.outcome = "duplicate_mam1"
    /\ logger.unread # {}
    /\ Cardinality(logger.logs) = 2

\* a message without text was handled in this step: it was skipped, or it got
\* to the search for duplicates
NoBodyStep ==
    /\ last_op'.op = "mam_message"
    /\ \/ last_op'.outcome = "no_body"
       \/ last_op'.msg # NullMsg /\ last_op'.msg.body = ""

\* C19: a message without text writes no row and no unread message, no
\* admitted-message event is pushed for it, and the registered query ids, the
\* archive rows with their cursors and the list of caught-up archives are as
\* before; skipping it raises nothing
C19_NoBodySkipped ==
    [][NoBodyStep =>
        /\ logger'.logs = logger.logs
        /\ logger'.unread = logger.unread
        /\ Admitted \notin last_op'.events
        /\ mam_query_ids' = mam_query_ids
        /\ catch_up_finished' = catch_up_finished
        /\ logger'.archive = logger.archive
        /\ disk' = disk
        /\ last_op'.outcome = "no_body" => ~last_op'.raised]_vars

\* a message without text was skipped while the query of the personal archive
\* is registered, a message is unread and the log holds two rows
C19_Witness ==
    /\ last_op.op = "mam_message"
    /\ last_op.outcome = "no_body"
    /\ ~last_op.raised
    /\ mam_query_ids[OwnJid] # NoId
    /\ logger.unread # {}
    /\ Cardinality(logger.logs) = 2

\* a mam:2 message of the personal archive got to the search for duplicates
\* in this step
PersonalStep ==
    /\ MessageStep
    /\ last_op'.msg.namespace = NS_MAM_2
    /\ ~last_op'.msg.is_groupchat

\* group-chat rows are stored under an id of the message, and no other row is
GcRowsOnly(p) ==
    /\ \E r \in logger.logs : r.kind = GC_MSG /\ r.stanza_id \in IdsOfMessage(p)
    /\ \A r \in logger.logs :
            (OfAccount(r) /\ r.stanza_id \in IdsOfMessage(p)) => r.kind = GC_MSG

\* C20 as claimed: a message of the personal archive whose ids are the
\* stanza-ids of group-chat rows only is stored
C20_GcRowsOnlyIsStored ==
    [][(PersonalStep /\ GcRowsOnly(last_op'.msg)) =>
            last_op'.outcome = "inserted"]_vars

\* C20: a message of the personal archive whose ids are the stanza-ids of
\* group-chat rows only is not a duplicate, and unless it is a message to
\* oneself without origin-id it is stored, in a row that is not a group-chat
\* row
C20_GcRowsIgnored ==
    [][(PersonalStep /\ GcRowsOnly(last_op'.msg)) =>
        /\ last_op'.outcome # "duplicate"
        /\ ~(last_op'.msg.is_self_message /\ last_op'.msg.id = None) =>
            /\ last_op'.outcome = "inserted"
            /\ \E r \in RowsWritten :
                    /\ RowsWritten = {r}
                    /\ r.kind # GC_MSG
                    /\ r.stanza_id \in IdsOfMessage(last_op'.msg)]_vars

\* a message received from a contact was stored under the stanza-id that a
\* group-chat row carries, the only other row
C20_Witness ==
    /\ IsMessage2
    /\ ~last_op.msg.is_groupchat
    /\ last_op.outcome = "inserted"
    /\ Cardinality(logger.logs) = 2
    /\ \E r1, r2 \in logger.logs :
            /\ r1.kind = GC_MSG
            /\ r2.kind = CHAT_MSG_RECV
            /\ r1.log_line_id < r2.log_line_id
            /\ r1.stanza_id = r2.stanza_id
            /\ r2.stanza_id = last_op.msg.mam_id

\* ------------------------------------------- claims about the identities

\* the rows of the identity table for an address
IdentityOf(lg, jid) == {r \in lg.jids : r.jid = jid}

\* a call of get_jid_id returned in this step
ResolveStep == last_op'.op = "get_jid_id" /\ ~last_op'.raised

\* C21: a call for an address that has an identity returns the id of that
\* identity, whatever kind and type it is called with, and changes no identity;
\* a call for another address adds one identity with an id that no identity
\* has; no identity is removed and no two addresses share an id
C21_FirstCallFixesIdentity ==
    [][ResolveStep =>
        /\ IdentityOf(logger, last_op'.jid) # {} =>
            /\ logger'.jids = logger.jids
            /\ \A r \in IdentityOf(logger, last_op'.jid) :
                    last_op'.ret = r.jid_id
        /\ IdentityOf(logger, last_op'.jid) = {} =>
            /\ \E r \in logger'.jids :
                    /\ logger'.jids = logger.jids \cup {r}
                    /\ r.jid = last_op'.jid
                    /\ r.jid_id = last_op'.ret
                    /\ \A o \in logger.jids : o.jid_id # r.jid_id
        /\ logger.jids \subseteq logger'.jids
        /\ \A r1, r2 \in logger'.jids :
                r1.jid_id = r2.jid_id => r1 = r2
        /\ \A r1, r2 \in logger'.jids :
                r1.jid = r2.jid => r1 = r2]_vars

\* the address of a room was resolved with a kind of chat message and the
\* type of a contact: the id of the room is returned and it is still a room,
\* next to two other identities
C21_Witness ==
    /\ last_op.op = "get_jid_id"
    /\ ~last_op.raised
    /\ last_op.args = <<CHAT_MSG_RECV, NORMAL_TYPE>>
    /\ Cardinality(logger.jids) = 3
    /\ \E r \in logger.jids :
            /\ r.jid = last_op.jid
            /\ r.jid_id = last_op.ret
            /\ r.type = ROOM_TYPE

\* the identities that the cache holds under their address, and under their id
ByAddress(lg) == lg.jid_ids

ById(lg) == lg.jid_ids_reversed

\* C22: every identity of the table is in the cache under its address and
\* under its id, and the two maps hold the same identities
C22_CacheIsBidirectional ==
    /\ logger.jids \subseteq ByAddress(logger)
    /\ logger.jids \subseteq ById(logger)
    /\ ByAddress(logger) = ById(logger)

\* C23: a call without kind and type for an address that has no identity
\* raises and leaves the table and the cache as they were; for an address that
\* has one it returns its id
C23_TypeNeededToInsert ==
    [][(last_op'.op = "get_jid_id" /\ last_op'.args = <<NoKind, NoType>>) =>
        IF IdentityOf(logger, last_op'.jid) = {}
        THEN /\ last_op'.raised
             /\ logger' = logger
        ELSE /\ ~last_op'.raised
             /\ logger'.jids = logger.jids
             /\ \E r \in logger.jids :
                    r.jid = last_op'.jid /\ r.jid_id = last_op'.ret]_vars

\* a call without kind and type raised for an address without identity, while
\* other addresses have one
C23_Witness ==
    /\ last_op.op = "get_jid_id"
    /\ last_op.args = <<NoKind, NoType>>
    /\ last_op.raised
    /\ IdentityOf(logger, last_op.jid) = {}
    /\ logger.jids # {}

\* ------------------------------------------- claims about the checkpoints

\* the rows of last_archive_message of an address
CheckpointsOf(lg, jid) ==
    {a \in lg.archive : \E r \in lg.jids : r.jid = jid /\ r.jid_id = a.jid_id}

\* the fields of a checkpoint, and the value that stands for null in each
CheckpointFields ==
    {"last_mam_id", "oldest_mam_timestamp", "last_muc_timestamp",
     "sync_threshold"}

\* the row b is the row a with the fields of kw that have a value
IsUpdateOf(b, a, kw) ==
    /\ b.jid_id = a.jid_id
    /\ \A f \in CheckpointFields :
            b[f] = IF kw[f] = NoArgs[f] THEN a[f] ELSE kw[f]

\* the row b is a new row with the fields of kw
IsInsertOf(b, kw) == \A f \in CheckpointFields : b[f] = kw[f]

\* the effect of set_archive_infos(jid, kw) on the table
Upserted(jid, kw) ==
    /\ ~last_op'.raised
    /\ \E b \in logger'.archive :
            /\ CheckpointsOf(logger', jid) = {b}
            /\ logger'.archive \ {b} = logger.archive \ CheckpointsOf(logger, jid)
            /\ IF CheckpointsOf(logger, jid) = {} THEN IsInsertOf(b, kw)
               ELSE \A a \in CheckpointsOf(logger, jid) : IsUpdateOf(b, a, kw)

\* set_archive_infos was called in this step for an address with an identity
CheckpointStep ==
    /\ last_op'.op = "set_archive_infos"
    /\ IdentityOf(logger, last_op'.jid) # {}

C24_UpsertOfAValue ==
    [][(/\ CheckpointStep
        /\ \/ last_op'.args[1] # NoArgs
           \/ CheckpointsOf(logger, last_op'.jid) = {}) =>
            Upserted(last_op'.jid, last_op'.args[1])]_vars

\* ------------------------------------------------ claims about failures

\* C25: when an error-typed or malformed result of a catch-up query has been
\* handled, the event archiving-error-received was pushed
C25_FailureRaisesEvent ==
    (IsResult /\ IsFailure) => "archiving-error-received" \in last_op.events

\* no catch-up query of the archive is outstanding, and the archive is caught
\* up or the result that was handled last is a failed result of its query
Terminal(jid) ==
    /\ CatchUpsInFlight(jid) = {}
    /\ \/ is_catch_up_finished(jid)
       \/ IsResult /\ last_op.jid = jid /\ IsFailure

\* C26: when a catch-up query is outstanding for an archive and every result
\* is delivered, the archive gets to a state without outstanding query in
\* which it is caught up or its query has failed
C26_PaginationEnds ==
    \A jid \in {OwnJid, "room1@muc"} :
        (CatchUpsInFlight(jid) # {}) ~> Terminal(jid)

\* the second page of the personal archive came back complete: no query is
\* outstanding and the archive is caught up
C26_Witness ==
    /\ IsResult
    /\ last_op.jid = OwnJid
    /\ last_op.start = Null
    /\ last_op.boot # Null
    /\ last_op.stanza.complete
    /\ CatchUpsInFlight(OwnJid) = {}
    /\ is_catch_up_finished(OwnJid)

\* ---------------------------------------- claims about the unread messages

\* the ids of the unread messages
UnreadIds(lg) == {u.message_id : u \in lg.unread}

\* C27: set_read_messages removes the unread messages with the given ids and
\* no other, so that get_unread_msgs returns none of them, and leaves the rest
\* as it is; set_shown_unread_msgs sets shown for the unread message with the
\* given id, and adds and removes none
C27_ReadRemovesShownFlags ==
    [][/\ last_op'.op = "set_read_messages" =>
            /\ logger'.unread =
                    {u \in logger.unread : u.message_id \notin last_op'.args[1]}
            /\ \A e \in get_unread_msgs(logger').ret :
                    e[1] \notin last_op'.args[1]
            /\ logger'.logs = logger.logs
       /\ last_op'.op = "set_shown_unread_msgs" =>
            /\ UnreadIds(logger') = UnreadIds(logger)
            /\ \A u \in logger.unread : \E v \in logger'.unread :
                    /\ v.message_id = u.message_id
                    /\ v.jid_id = u.jid_id
                    /\ v.shown = (u.shown \/ u.message_id = last_op'.args[1])
            /\ Cardinality(logger'.unread) = Cardinality(logger.unread)
            /\ logger'.logs = logger.logs]_vars

\* messages were marked as read, among them a received message of the log,
\* and an unread message that was shown is left
C27_Witness ==
    /\ last_op.op = "set_read_messages"
    /\ \E r \in logger.logs :
            /\ r.kind = CHAT_MSG_RECV
            /\ r.log_line_id \in last_op.args[1]
    /\ \E u \in logger.unread : u.shown
    /\ UnreadIds(logger) \cap last_op.args[1] = {}

\* the rows of the log that an unread message points to
RowOfUnread(lg, u) == {r \in lg.logs : r.log_line_id = u.message_id}

\* C28: get_unread_msgs returns the unread messages whose row is in the log,
\* each with its shown flag, and leaves these as the unread messages
C28_UnreadOfDeletedIsPruned ==
    [][last_op'.op = "get_unread_msgs" =>
        /\ last_op'.args[1] =
                {<<u.message_id, u.shown>> :
                    u \in {v \in logger.unread : RowOfUnread(logger, v) # {}}}
        /\ logger'.unread =
                {v \in logger.unread : RowOfUnread(logger, v) # {}}
        /\ \A u \in logger'.unread : RowOfUnread(logger', u) # {}
        /\ logger'.logs = logger.logs]_vars

\* get_unread_msgs returned an unread message and removed another, whose row
\* is not in the log
C28_Witness ==
    /\ last_op.op = "get_unread_msgs"
    /\ last_op.args[1] # {}
    /\ last_op.args[2] # {}
    /\ \A id \in last_op.args[2] :
            \A r \in logger.logs : r.log_line_id # id

\* insert_into_logs was called in this step
InsertStep == last_op'.op = "insert_into_logs"

\* C29: insert_into_logs adds one row, and one unread message for it, not
\* shown, exactly if it is called with unread for a received chat message; it
\* leaves the unread messages alone otherwise; no two unread messages are of
\* the same row
C29_MarkerForUnreadReceived ==
    [][InsertStep =>
        /\ \E r \in logger'.logs :
                /\ logger'.logs = logger.logs \cup {r}
                /\ r \notin logger.logs
                /\ r.log_line_id = last_op'.ret
                /\ r.kind = last_op'.args[1]
                /\ IF last_op'.args = <<CHAT_MSG_RECV, TRUE>>
                   THEN /\ logger'.unread = logger.unread \cup
                                {[message_id |-> r.log_line_id,
                                  jid_id |-> r.jid_id, shown |-> FALSE]}
                        /\ r.log_line_id \notin UnreadIds(logger)
                   ELSE logger'.unread = logger.unread
        /\ \A u, v \in logger'.unread :
                u.message_id = v.message_id => u = v]_vars

\* a received message was inserted as unread, after one that was inserted
\* without and one that was sent
C29_Witness ==
    /\ last_op.op = "insert_into_logs"
    /\ last_op.args = <<CHAT_MSG_RECV, TRUE>>
    /\ UnreadIds(logger) = {last_op.ret}
    /\ \E r1, r2 \in logger.logs :
            /\ r1.kind = CHAT_MSG_RECV
            /\ r1.log_line_id < last_op.ret
            /\ r2.kind = CHAT_MSG_SENT
            /\ r2.log_line_id < last_op.ret

\* ----------------------------------------------- claims about range queries

\* a range query was made
IsRangeQuery ==
    last_op.op \in {"get_last_conversation_lines",
                    "get_conversation_for_date", "search_log"}

\* the rows of a result are in ascending order of time, and of log_line_id
\* for rows of the same time
InTimeOrder(seq) ==
    \A i, k \in 1..Len(seq) :
        i < k =>
            \/ seq[i].time < seq[k].time
            \/ seq[i].time = seq[k].time
                /\ seq[i].log_line_id < seq[k].log_line_id

\* C30: the rows that a range query returns are rows of the log of the
\* conversation asked for, each one once, in ascending order of time and then
\* of log_line_id
C30_RangeQueriesInTimeOrder ==
    IsRangeQuery =>
        LET seq == last_op.args[1]
        IN  /\ InTimeOrder(seq)
            /\ \A i \in 1..Len(seq) :
                    /\ seq[i] \in logger.logs
                    /\ JidOfRow(seq[i]) = last_op.jid

\* a query returned a row that was inserted later before a row with a later
\* time
C30_Witness ==
    /\ IsRangeQuery
    /\ \E i, k \in 1..Len(last_op.args[1]) :
            /\ i < k
            /\ last_op.args[1][i].log_line_id > last_op.args[1][k].log_line_id
            /\ last_op.args[1][i].time < last_op.args[1][k].time

\* ------------------------------------ claims about messages of a room

\* the rows of the room of the message that carry its text, at most 60
\* seconds away from it
InRoomWindow(p) ==
    {r \in logger.logs :
        /\ OfAccount(r)
        /\ JidOfRow(r) = p.archive
        /\ r.message = p.body
        /\ Distance(r.time, p.time) <= 60}

\* a mam:1 message of a room got to the timestamp window in this step
RoomFallbackStep ==
    /\ MessageStep
    /\ last_op'.msg.namespace = NS_MAM_1
    /\ last_op'.msg.is_groupchat
    /\ last_op'.outcome \in {"duplicate_mam1", "inserted"}

\* C31: a mam:1 message of a room is dropped as a duplicate exactly if a row
\* of the same account and room carries the same text at most 60 seconds away
C31_RoomWindowIsSixty ==
    [][RoomFallbackStep =>
        (last_op'.outcome = "duplicate_mam1"
            <=> InRoomWindow(last_op'.msg) # {})]_vars

\* what holds instead: the window of a message of a room is 30 seconds, as for
\* a direct chat
C31_RoomWindowIsThirty ==
    [][RoomFallbackStep =>
        (last_op'.outcome = "duplicate_mam1"
            <=> InWindow(last_op'.msg) # {})]_vars

\* --------------------------------- claims about the type of an identity

\* a call of get_jid_id with a message kind created an identity in this step
CreatedFromKind ==
    /\ ResolveStep
    /\ last_op'.outcome = "created"
    /\ last_op'.args[1] # NoKind

\* C32: an identity created from a message kind is a room if the kind is
\* group-chat message or group-chat status and a normal address for every
\* other kind, whatever type the caller passed along
C32_KindDecidesType ==
    [][CreatedFromKind =>
        \E r \in logger'.jids \ logger.jids :
            /\ r.jid = last_op'.jid
            /\ r.type = IF last_op'.args[1] \in {GC_MSG, GCSTATUS}
                        THEN ROOM_TYPE ELSE NORMAL_TYPE]_vars

\* a received chat message passed along with the type of a room created a
\* normal address
C32_Witness ==
    /\ last_op.op = "get_jid_id"
    /\ last_op.outcome = "created"
    /\ last_op.args = <<CHAT_MSG_RECV, ROOM_TYPE>>
    /\ \E r \in logger.jids :
            /\ r.jid = last_op.jid
            /\ r.jid_id = last_op.ret
            /\ r.type = NORMAL_TYPE

\* ----------------------------------- claims about the end of a catch-up

\* the result that was handled last ended the catch-up of its archive: it is
\* well-formed and empty or complete, and its archive is marked as caught up
CaughtUpByResult ==
    /\ IsResult
    /\ last_op.stanza.type = "result"
    /\ last_op.stanza.last = None \/ last_op.stanza.complete
    /\ is_catch_up_finished(last_op.jid)

\* C33: when a result has ended the catch-up of an archive, the handler has
\* pushed one event that tells so
C33_CaughtUpRaisesEvent ==
    CaughtUpByResult => Cardinality(last_op.events) = 1

\* ------------------------------- claims about the query of a message

\* C34: a message is stored only if it comes from the archive it is expected
\* from and a query id is registered for that archive that is the query id of
\* the message; a message from another archive or under another id leaves the
\* log database as it is
C34_OnlyMessagesOfRunningQuery ==
    [][last_op'.op = "mam_message" =>
        /\ RowsWritten # {} =>
            /\ from_valid_archive(last_op'.msg)
            /\ last_op'.guard # NoId
            /\ last_op'.msg.query_id = last_op'.guard
        /\ last_op'.outcome \in {"invalid_archive", "invalid_query"} =>
            Tables(logger') = Tables(logger)]_vars

\* ------------------------- claims about messages received while online

\* a message received while online was handled in this step
LiveStep == last_op'.op = "live_message"

\* C35: while a catch-up query of an archive is outstanding the archive is
\* not marked as caught up, and a message received while online leaves its
\* cursor as it is
C35_LiveCursorOnlyWhenCaughtUp ==
    [][\A jid \in Archives :
        /\ CatchUpsInFlight(jid)' # {} => ~is_catch_up_finished(jid)'
        /\ (LiveStep /\ last_op'.jid = jid /\ CatchUpsInFlight(jid) # {}) =>
                CursorOf(Tables(logger'), jid) = CursorOf(Tables(logger), jid)
        ]_vars

\* what holds for the personal archive, whose requests are guarded
C35_PersonalCursorOnlyWhenCaughtUp ==
    [][/\ CatchUpsInFlight(OwnJid)' # {} => ~is_catch_up_finished(OwnJid)'
       /\ (LiveStep /\ last_op'.jid = OwnJid
                /\ CatchUpsInFlight(OwnJid) # {}) =>
            CursorOf(Tables(logger'), OwnJid) = CursorOf(Tables(logger), OwnJid)
      ]_vars

\* --------------------------------------- claims about overlapping queries

\* a well-formed result of a catch-up, interval or count query was handled in
\* this step
WellFormedResultStep ==
    /\ last_op'.op \in {"result", "interval_result", "count_result"}
    /\ last_op'.stanza.type = "result"

\* C36: a well-formed result finds a query id registered for its archive, and
\* if handling it removes or replaces the registered id, that id is the id of
\* the query it answers
C36_ResultOwnsGuardEntry ==
    [][WellFormedResultStep =>
        \A q \in pending \ pending' :
            /\ mam_query_ids[q.jid] # NoId
            /\ mam_query_ids'[q.jid] # mam_query_ids[q.jid] =>
                    mam_query_ids[q.jid] = q.query_id]_vars

\* ------------------------------- claims about the rows of stored messages

\* a message was stored in this step
StoredStep == MessageStep /\ last_op'.outcome = "inserted"

\* the address of the identity that a row written by this step is stored under
AddressOfWritten(r) ==
    (CHOOSE j \in logger'.jids : j.jid_id = r.jid_id).jid

\* C37: a message received in private from an occupant of a room is stored
\* under the identity of the full address of the occupant, not under the one
\* of the room
C37_PrivateMessageUnderFullAddress ==
    [][(StoredStep /\ last_op'.msg.is_muc_pm) =>
        /\ RowsWritten # {}
        /\ \A r \in RowsWritten :
                /\ AddressOfWritten(r) = last_op'.msg.jid
                /\ AddressOfWritten(r) # getStripped(last_op'.msg.jid)]_vars

\* what holds instead: every message is stored under the bare address, the
\* one of the room for a message received in private from an occupant
C37_PrivateMessageUnderRoom ==
    [][StoredStep =>
        /\ RowsWritten # {}
        /\ \A r \in RowsWritten :
                AddressOfWritten(r) = getStripped(last_op'.msg.jid)]_vars

\* C38: when a received chat message of an archive is stored, an unread
\* message is added for the row written
C38_StoredReceivedIsUnread ==
    [][(StoredStep /\ kind_of(last_op'.msg) = CHAT_MSG_RECV) =>
        /\ RowsWritten # {}
        /\ \A r \in RowsWritten :
                /\ r.log_line_id \in UnreadIds(logger')
                /\ r.log_line_id \notin UnreadIds(logger)]_vars

\* what holds instead: storing a message of an archive leaves the unread
\* messages as they are
C38_StoredLeavesUnreadAlone ==
    [][StoredStep => logger'.unread = logger.unread]_vars

\* ------------------------------------------ claims about reset_state

\* the module was reset and nothing has happened since
JustReset == last_op.op = "reset_state"

\* C39: after reset_state no archive is marked as caught up and no query id
\* is registered; a message that arrives then is rejected and leaves the log
\* database as it is, and a sign-in then sends a query and registers its id
C39_ResetRejectsUntilNextQuery ==
    [][/\ JustReset' =>
            /\ \A a \in Archives :
                    ~is_catch_up_finished(a)' /\ mam_query_ids'[a] = NoId
       /\ (JustReset /\ last_op'.op = "mam_message") =>
            /\ last_op'.outcome \in {"invalid_archive", "invalid_query"}
            /\ Tables(logger') = Tables(logger)
       /\ (JustReset /\ last_op'.op = "signin") =>
            /\ Cardinality(last_op'.sent) = 1
            /\ \A q \in last_op'.sent :
                    /\ q \in pending'
                    /\ mam_query_ids'[OwnJid] = q.query_id]_vars

\* what holds instead: after reset_state a message under a query id is
\* rejected, and one without query id is handled as the message of a
\* running query
C39_ResetRejectsMessagesWithQueryId ==
    [][(JustReset /\ last_op'.op = "mam_message") =>
        \/ /\ last_op'.outcome \in {"invalid_archive", "invalid_query"}
           /\ Tables(logger') = Tables(logger)
        \/ /\ last_op'.outcome \in Searched
           /\ last_op'.msg.query_id = NoId]_vars

\* ------------------------------------------- claims about the dispatcher

\* a handler comes before another: its priority is smaller, or the same and
\* it was registered earlier
Precedes(x, y) ==
    \/ x.priority < y.priority
    \/ x.priority = y.priority /\ x.reg < y.reg

\* the tuples of a list
EntriesOf(list) == {list[k] : k \in 1..Len(list)}

\* C40: raise_event calls handlers of the event in the order of their
\* priority, and of their registration for the same priority; a handler that
\* returns a true value is the last one called and the call returns True
\* then, and only then; every handler is called unless one that comes before
\* it has returned a true value, whatever the others raise; NodeProcessed is
\* raised exactly if no handler returned a true value and one has raised it
C40_RaiseEventOrderAndStop ==
    [][last_op'.op = "raise_event" =>
        LET calls == last_op'.args[1]
            n == Len(calls)
            list == handlers[last_op'.jid]
            called == {calls[k].entry : k \in 1..n}
            trues == {k \in 1..n : calls[k].result = "true"}
            processed == {k \in 1..n : calls[k].result = "NodeProcessed"}
        IN  /\ \A i, j \in 1..n :
                    i < j => Precedes(calls[i].entry, calls[j].entry)
            /\ called \subseteq EntriesOf(list)
            /\ trues \subseteq {n}
            /\ last_op'.outcome = "True" <=> trues # {}
            /\ \A x \in EntriesOf(list) \ called :
                    \E k \in trues : Precedes(calls[k].entry, x)
            /\ last_op'.outcome = "NodeProcessed"
                    <=> (trues = {} /\ processed # {})]_vars

\* three handlers were registered, the one called last before the two others;
\* the first raised NodeProcessed, the second another exception, the third
\* returned a true value, and the call returned True
C40_Witness ==
    /\ last_op.op = "raise_event"
    /\ last_op.outcome = "True"
    /\ Len(last_op.args[1]) = 3
    /\ last_op.args[1][1].result = "NodeProcessed"
    /\ last_op.args[1][2].result = "Exception"
    /\ last_op.args[1][3].result = "true"
    /\ last_op.args[1][3].entry.reg = 1
    /\ last_op.args[1][1].entry.priority = last_op.args[1][2].entry.priority

====
